---------------------------- MODULE Spec2Model ----------------------------
(***************************************************************************)
(* Model of the managed runtime that the C# backend of gobind emits        *)
(* (bind/csharp/seq_windows.h): the reference tracker, the proxy classes   *)
(* with their Dispose/finalizer machinery, the managed-to-Go call paths    *)
(* and the lazy callback registration of implementable interfaces.         *)
(***************************************************************************)
EXTENDS Integers, Sequences, FiniteSets, TLC

(***************************************************************************)
(* Program constants                                                       *)
(***************************************************************************)
NullRefNum == 41
RefOffset == 42
IntMaxValue == 2147483647

(***************************************************************************)
(* Bounds of the model                                                     *)
(***************************************************************************)
MaxObjs == 2
MaxAlloc == 3
MaxCount == 2
MaxProxies == 1
MaxPending == 1
MaxThreads == 2
MaxMethods == 2
MaxLog == 4
MaxParams == 2
MaxLen == 3
MaxDepth == 2
MaxBridge == 1
MaxQueue == 2
MaxMembers == 2

Objects == 1 .. MaxObjs
NullObj == 0
ProxyIds == 1 .. MaxProxies

\* Managed threads that call the emitted members, and the finalizer thread.
Threads == 1 .. MaxThreads
FinThread == 0

\* The callable methods of the implementable interface, and the NULL slot.
Methods == 1 .. MaxMethods
NullFn == 0

\* Refnums of objects owned by the Go side: negative, as the interface
\* proxy's FromRefnum tests (refnum < 0).
GoRefs == {-1}

\* Refnums an operation of the tracker can be called with.
RefnumInputs == {0, NullRefNum} \cup (RefOffset .. (RefOffset + MaxAlloc - 1))

\* Wire refnums FromRefnum can be handed, per class of the static type.
WireRefnums(cls) ==
    IF cls = "struct" THEN {NullRefNum} \cup GoRefs
    ELSE {NullRefNum} \cup GoRefs \cup (RefOffset .. (RefOffset + MaxAlloc - 1))

VARIABLES
    nextRefnum,   \* RefTracker.nextRefnum
    refs,         \* RefTracker.refs: refnum -> Ref [Value, Count]
    objectRefs,   \* RefTracker.objectRefs: object identity -> refnum
    net,          \* per object: increments minus decrements applied to its entry
    handed,       \* per object: the refnums Inc has returned for it
    ret,          \* the last runtime call: operation, argument, result
    proxies,      \* proxy objects: id -> [cls, refnum, disposed, ...]
    pending,      \* Seq.pendingExceptions
    th,           \* per thread: the emitted member it executes and where
    registered,   \* the static flag `registered` of an interface proxy class
    callback,     \* per method: the C slot cproxy..._callback
    setterCalls,  \* per method: calls of its go_seq_set_cproxy... setter
    casWins,      \* EnsureRegistered invocations that won the CAS
    regth,        \* per thread: where it is in passing an argument to Go
    goHolds,      \* refnums of managed objects that were passed to Go
    dispatched,   \* methods whose dispatcher called the managed trampoline
    aborted,      \* a dispatcher called abort()
    cb,           \* the last run of a callback trampoline: what it did
    nativeLog,    \* the first native entries the process called, in order
    seqInitialized,   \* the static constructor of Seq has run
    pkgInitialized,   \* the static constructor of the package class has run
    constructed,  \* a struct proxy object exists
    mcall,        \* a managed-to-Go call: its arguments' marshalling and buffers
    conv,         \* the last wire-to-managed conversion of a string or byte slice
    bridge,       \* the last run of a C dispatcher: what it received and did
    applied       \* the last application of a pure function: its input and results

trackerVars == <<nextRefnum, refs, objectRefs, net, handed>>
regVars ==
    <<registered, callback, setterCalls, casWins, regth, goHolds, dispatched, aborted>>
cbVars == <<cb>>
initVars == <<nativeLog, seqInitialized, pkgInitialized, constructed>>
marshalVars == <<mcall, conv>>
auxVars == <<cbVars, initVars, marshalVars, bridge, applied>>
auxNotCb == <<initVars, marshalVars, bridge, applied>>
auxNotInit == <<cbVars, marshalVars, bridge, applied>>
auxNotMarshal == <<cbVars, initVars, bridge, applied>>
auxNotBridge == <<cbVars, initVars, marshalVars, applied>>
progVars ==
    <<trackerVars, ret, proxies, pending, th, regVars, cbVars, initVars, marshalVars,
      bridge>>
vars ==
    <<nextRefnum, refs, objectRefs, net, handed, ret, proxies, pending, th,
      registered, callback, setterCalls, casWins, regth, goHolds, dispatched, aborted,
      cb, nativeLog, seqInitialized, pkgInitialized, constructed, mcall, conv,
      bridge, applied>>

EmptyMap == [x \in {} |-> 0]
MapPut(m, k, v) == [x \in (DOMAIN m) \cup {k} |-> IF x = k THEN v ELSE m[x]]
MapRemove(m, k) == [x \in (DOMAIN m) \ {k} |-> m[x]]

\* Results of a runtime call.
RNull == [kind |-> "null", val |-> 0, ex |-> ""]
RVoid == [kind |-> "void", val |-> 0, ex |-> ""]
RThrow(e) == [kind |-> "throw", val |-> 0, ex |-> e]
RRefnum(r) == [kind |-> "refnum", val |-> r, ex |-> ""]
RObject(o) == [kind |-> "object", val |-> o, ex |-> ""]
RProxy(p) == [kind |-> "proxy", val |-> p, ex |-> ""]

\* The exceptions the emitted code throws.
ExUnknownReference == "unknown reference"
ExRefnumOverflow == "RefTracker: refnum overflow"
ExRefcountOverflow == "Ref: refcount overflow"
ExObjectDisposed == "ObjectDisposedException"
ExPending == "Unhandled exception in previous callback"
ExGoException == "GoException"

Called(op, arg, res) ==
    ret' = [op |-> op, arg |-> arg, res |-> res]

(***************************************************************************)
(* Ref                                                                     *)
(***************************************************************************)
\* n + 1 in C# int arithmetic (unchecked: int.MaxValue + 1 is int.MinValue).
Int32Inc(n) == IF n = IntMaxValue THEN -IntMaxValue - 1 ELSE n + 1

NewRef(value) == [Value |-> value, Count |-> 0]
RefIncThrows(entry) == entry.Count = IntMaxValue
\* Ref.Inc() that leaves the count alone.
RefInc_None(entry) == entry
RefInc(entry) == [entry EXCEPT !.Count = Int32Inc(@)]
RefDec(entry) == [entry EXCEPT !.Count = @ - 1]

(***************************************************************************)
(* RefTracker                                                              *)
(***************************************************************************)
\* Inc without interning: every call takes the next refnum.
IncRefnumFor_NoIntern(value) == nextRefnum

\* The refnum Inc uses for value: the interned one, else the next one.
IncRefnumFor(value) ==
    IF value \in DOMAIN objectRefs THEN objectRefs[value] ELSE nextRefnum

\* The entry Inc increments: the stored one, else a new Ref(value).
IncEntryFor(value) ==
    IF IncRefnumFor(value) \in DOMAIN refs
    THEN refs[IncRefnumFor(value)] ELSE NewRef(value)

\* The allocator without its post-increment.
NextRefnumAfter_Stuck(fresh) == nextRefnum

\* nextRefnum after Inc: refnum = nextRefnum++ for an object not interned.
NextRefnumAfter(fresh) == IF fresh THEN Int32Inc(nextRefnum) ELSE nextRefnum

\* Inc without the test of nextRefnum against int.MaxValue.
IncThrows_CountOnly(value) ==
    IF RefIncThrows(IncEntryFor(value)) THEN ExRefcountOverflow ELSE ""

\* RefTracker.Inc(value), value not null: whether it throws, and which.
IncThrows(value) ==
    IF value \notin DOMAIN objectRefs /\ nextRefnum = IntMaxValue
    THEN ExRefnumOverflow
    ELSE IF RefIncThrows(IncEntryFor(value)) THEN ExRefcountOverflow ELSE ""

\* RefTracker.Inc(value), under lock (refs).
Inc(value) ==
    IF value = NullObj
    THEN /\ Called("Inc", value, RRefnum(NullRefNum))
         /\ UNCHANGED trackerVars
    ELSE IF IncThrows(value) = ExRefnumOverflow
    THEN /\ Called("Inc", value, RThrow(ExRefnumOverflow))
         /\ UNCHANGED trackerVars
    ELSE LET refnum == IncRefnumFor(value)
             entry == IncEntryFor(value)
             fresh == value \notin DOMAIN objectRefs
         IN /\ nextRefnum' = NextRefnumAfter(fresh)
            /\ objectRefs' = MapPut(objectRefs, value, refnum)
            /\ IF RefIncThrows(entry)
               THEN /\ refs' = MapPut(refs, refnum, entry)
                    /\ UNCHANGED <<net, handed>>
                    /\ Called("Inc", value, RThrow(ExRefcountOverflow))
               ELSE /\ refs' = MapPut(refs, refnum, RefInc(entry))
                    /\ net' = [net EXCEPT ![value] = @ + 1]
                    /\ handed' = [handed EXCEPT ![value] = @ \cup {refnum}]
                    /\ Called("Inc", value, RRefnum(refnum))

\* RefTracker.IncRefnum(refnum), under lock (refs).
IncRefnum(refnum) ==
    IF refnum <= 0 \/ refnum = NullRefNum
    THEN /\ Called("IncRefnum", refnum, RVoid)
         /\ UNCHANGED trackerVars
    ELSE IF refnum \notin DOMAIN refs
    THEN /\ Called("IncRefnum", refnum, RThrow(ExUnknownReference))
         /\ UNCHANGED trackerVars
    ELSE IF RefIncThrows(refs[refnum])
    THEN /\ Called("IncRefnum", refnum, RThrow(ExRefcountOverflow))
         /\ UNCHANGED trackerVars
    ELSE /\ refs' = [refs EXCEPT ![refnum] = RefInc(@)]
         /\ net' = [net EXCEPT ![refs[refnum].Value] = @ + 1]
         /\ Called("IncRefnum", refnum, RVoid)
         /\ UNCHANGED <<nextRefnum, objectRefs, handed>>

\* DecRefnum that keeps an entry whose count reached zero.
DropsEntry_Never(entry) == FALSE

\* DecRefnum drops the entry from both maps when its count is <= 0.
DropsEntry(entry) == entry.Count <= 0

\* RefTracker.DecRefnum(refnum), under lock (refs).
DecRefnum(refnum) ==
    IF refnum <= 0 \/ refnum = NullRefNum \/ refnum \notin DOMAIN refs
    THEN /\ Called("DecRefnum", refnum, RVoid)
         /\ UNCHANGED trackerVars
    ELSE LET entry == RefDec(refs[refnum])
         IN /\ IF DropsEntry(entry)
               THEN /\ refs' = MapRemove(refs, refnum)
                    /\ objectRefs' = MapRemove(objectRefs, entry.Value)
               ELSE /\ refs' = [refs EXCEPT ![refnum] = entry]
                    /\ UNCHANGED objectRefs
            /\ net' = [net EXCEPT ![entry.Value] = @ - 1]
            /\ Called("DecRefnum", refnum, RVoid)
            /\ UNCHANGED <<nextRefnum, handed>>

\* GetRef without the sentinel test.
GetRef_NoSentinel(refnum) ==
    IF refnum \notin DOMAIN refs THEN RThrow(ExUnknownReference)
    ELSE RObject(refs[refnum].Value)

\* RefTracker.GetRef(refnum): the result, no state change.
GetRef(refnum) ==
    IF refnum = NullRefNum THEN RNull
    ELSE IF refnum \notin DOMAIN refs THEN RThrow(ExUnknownReference)
    ELSE RObject(refs[refnum].Value)

(***************************************************************************)
(* Proxy classes: construction from a refnum                               *)
(***************************************************************************)
NewProxy(cls, refnum, held) ==
    [cls |-> cls, refnum |-> refnum, disposed |-> 0, held |-> held,
     finalizable |-> TRUE, destroyed |-> 0, ctorDestroyed |-> 0]

\* The identity the next allocated proxy object gets.
CanAllocProxy == ProxyIds \ DOMAIN proxies # {}
FreshProxy ==
    IF CanAllocProxy
    THEN CHOOSE i \in ProxyIds \ DOMAIN proxies :
            \A j \in ProxyIds \ DOMAIN proxies : i <= j
    ELSE 0

\* <Struct>.FromRefnum(refnum): "null" or a new proxy of the struct class.
StructFromRefnum(refnum) ==
    IF refnum = NullRefNum THEN RNull ELSE RProxy(FreshProxy)

\* Proxy<Iface>.FromRefnum with the sign test reversed.
IfaceFromRefnum_Flipped(refnum) ==
    IF refnum = NullRefNum THEN RNull
    ELSE IF refnum > 0 THEN RProxy(FreshProxy)
    ELSE GetRef(refnum)

\* Proxy<Iface>.FromRefnum(refnum): "null", a new proxy for a negative
\* refnum, else the managed object the tracker holds (GetRef may throw).
IfaceFromRefnum(refnum) ==
    IF refnum = NullRefNum THEN RNull
    ELSE IF refnum < 0 THEN RProxy(FreshProxy)
    ELSE GetRef(refnum)

FromRefnum(cls, refnum) ==
    IF cls = "struct" THEN StructFromRefnum(refnum) ELSE IfaceFromRefnum(refnum)

\* The proxy table after a FromRefnum whose result is res.
ProxiesAfterFromRefnum(cls, refnum, res) ==
    IF res.kind = "proxy"
    THEN MapPut(proxies, res.val, NewProxy(cls, refnum, TRUE))
    ELSE proxies

(***************************************************************************)
(* Seq: the entry points of the reference runtime, as whole calls          *)
(***************************************************************************)
ManagedValues ==
    {[kind |-> "null", id |-> NullObj]}
      \cup {[kind |-> "object", id |-> o] : o \in Objects}
      \cup {[kind |-> "proxy", id |-> p] : p \in DOMAIN proxies}

\* Seq.IncRef(value): null, an IProxy (its IncRefnum), else Tracker.Inc.
IncRef(value) ==
    IF value.kind = "null"
    THEN /\ Called("IncRef", NullObj, RRefnum(NullRefNum))
         /\ UNCHANGED trackerVars
    ELSE IF value.kind = "proxy"
    THEN /\ Called("IncRefProxy", value.id,
                   IF proxies[value.id].disposed # 0
                   THEN RThrow(ExObjectDisposed)
                   ELSE RRefnum(proxies[value.id].refnum))
         /\ UNCHANGED trackerVars
    ELSE Inc(value.id)

\* A managed thread passes value to Go: Seq.IncRef(value).
CallIncRef(value) ==
    /\ value.kind = "object" =>
          /\ net[value.id] < MaxCount
          /\ value.id \in DOMAIN objectRefs \/ nextRefnum < RefOffset + MaxAlloc
    /\ IncRef(value)
    /\ UNCHANGED <<proxies, pending, th, regVars, auxVars>>

\* Go calls the registered inc-ref callback: Seq.IncRefnum(refnum).
GoIncRefnum(refnum) ==
    /\ refnum \in DOMAIN refs => refs[refnum].Count < MaxCount
    /\ IncRefnum(refnum)
    /\ UNCHANGED <<proxies, pending, th, regVars, auxVars>>

\* Go calls the registered dec-ref callback: Seq.DecRefnum(refnum).
GoDecRefnum(refnum) ==
    /\ DecRefnum(refnum)
    /\ UNCHANGED <<proxies, pending, th, regVars, auxVars>>

\* Seq.GetRef(refnum).
CallGetRef(refnum) ==
    /\ Called("GetRef", refnum, GetRef(refnum))
    /\ UNCHANGED <<trackerVars, proxies, pending, th, regVars, auxVars>>

\* <Struct>.FromRefnum / Proxy<Iface>.FromRefnum called on a wire refnum.
CallFromRefnum(cls, refnum) ==
    LET res == FromRefnum(cls, refnum)
    IN /\ res.kind = "proxy" => CanAllocProxy
       /\ Called(IF cls = "struct" THEN "StructFromRefnum" ELSE "IfaceFromRefnum",
                 refnum, res)
       /\ proxies' = ProxiesAfterFromRefnum(cls, refnum, res)
       /\ UNCHANGED <<trackerVars, pending, th, regVars, auxVars>>

(***************************************************************************)
(* Emitted members, executed step by step by managed threads               *)
(***************************************************************************)
\* Kinds of supported Go types a result can have.
TypeKinds == {"basic", "string", "slice", "pointer", "namedStruct", "namedInterface"}

\* Error refnums a Go call can return: none, or a Go error object.
GoErrors == {NullRefNum, -2}

\* isRefnumType that misses pointers to named types.
isRefnumType_NoPointer(vt) == vt \in {"namedStruct", "namedInterface", "error"}

\* isRefnumType(t): pointer to named, or named struct / interface.
isRefnumType(vt) == vt \in {"pointer", "namedStruct", "namedInterface", "error"}

\* The proxy class managedFromNativeExpr calls FromRefnum on.
ClassOf(vt) == IF vt \in {"namedInterface", "error"} THEN "iface" ELSE "struct"

\* managedFromNativeExpr(source, t): the managed value of a wire value.
FromNative(vt, wire) ==
    IF vt \in {"pointer", "namedStruct", "namedInterface", "error"}
    THEN FromRefnum(ClassOf(vt), wire)
    ELSE RVoid

\* Wire values Go can return for a result of kind vt.
GoValues(vt) ==
    IF vt \in {"pointer", "namedStruct", "namedInterface"}
    THEN {NullRefNum} \cup GoRefs ELSE {0}

\* Result shapes of the emitted callables: (), (T), (error), (T, error).
Shapes ==
    {[resLen |-> 0, vt |-> "none"], [resLen |-> 1, vt |-> "error"]}
      \cup {[resLen |-> n, vt |-> k] : n \in {1, 2}, k \in TypeKinds}

\* Shapes of a function offered as a constructor: *T or (*T, error).
CtorShapes == {[resLen |-> n, vt |-> "pointer"] : n \in {1, 2}}

\* Shapes a member of the given kind can have.
ShapesOf(member) ==
    IF member = "set" THEN {[resLen |-> 0, vt |-> "none"]}
    ELSE IF member = "get" THEN {[resLen |-> 1, vt |-> k] : k \in TypeKinds}
    ELSE Shapes

\* Members with a native entry that a proxy of class cls has: methods, and
\* for a struct class the getter and the setter of each exported field.
MembersOf(cls) == IF cls = "struct" THEN {"method", "get", "set"} ELSE {"method"}

\* Wire results Go can return for a callable of the given shape:
\* r0 the value (or the only result), r1 the error of a two-result call.
GoResults(shape) ==
    {[r0 |-> a, r1 |-> b] :
        a \in (IF shape.resLen = 0 THEN {0}
               ELSE IF shape.vt = "error" THEN GoErrors ELSE GoValues(shape.vt)),
        b \in (IF shape.resLen = 2 THEN GoErrors ELSE {NullRefNum})}

Idle ==
    [pc |-> "idle", op |-> "none", p |-> 0, entered |-> 0, natives |-> 0,
     dequeued |-> 0, skipped |-> FALSE, refErr |-> FALSE, r0 |-> 0,
     valDestroyed |-> <<>>, outcome |-> "none", value |-> RVoid]

\* skipped records that a crossing into Go with no ThrowIfPendingException
\* of its own made its native call while an exception was pending.
\* The record of a call that ended: what it did and how it ended.
Ended(rec, outcome, value) ==
    [rec EXCEPT !.pc = "idle", !.op = "none", !.p = 0,
                !.outcome = outcome, !.value = value]

Finish(t, outcome, value) ==
    th' = [th EXCEPT ![t] = Ended(th[t], outcome, value)]

Goto(t, pc) == th' = [th EXCEPT ![t].pc = pc]

\* A native entry was called by thread t, which continues at pc.
NativeThenGoto(t, pc) ==
    th' = [th EXCEPT ![t].pc = pc, ![t].natives = @ + 1]

\* `this` of proxy p is still referenced by a running member.
ThisLive(p) ==
    \E t \in Threads :
        /\ th[t].p = p
        /\ th[t].pc \in {"check", "pendcheck", "incgoref", "native",
                         "dispose_xchg", "dispose_destroy", "dispose_suppress",
                         "ctor_destroy", "ctor_throw"}

\* entered records the disposed flag of p at the call of a member guarded by
\* ThrowIfDisposed (0 for Dispose, which has no such guard).
\* A thread calls a member of proxy p: Dispose(), Refnum, IncRefnum(), or
\* a member with a native entry (a method, a field getter or setter).
BeginCall(t, op, p) ==
    /\ th[t].pc = "idle"
    /\ p \in DOMAIN proxies /\ proxies[p].held
    /\ th' = [th EXCEPT ![t] =
                [Idle EXCEPT !.pc = IF op = "Dispose" THEN "dispose_xchg" ELSE "check",
                             !.op = op, !.p = p,
                             !.entered = IF op = "Dispose" THEN 0
                                         ELSE proxies[p].disposed]]
    /\ UNCHANGED <<trackerVars, ret, regVars, auxVars, proxies, pending>>

\* ThrowIfDisposed without the test.
IsDisposed_Never(p) == FALSE

\* ThrowIfDisposed(): disposed != 0.
IsDisposed(p) == proxies[p].disposed # 0

\* ThrowIfDisposed() at the head of a member; Refnum returns after it.
StepCheck(t) ==
    /\ th[t].pc = "check"
    /\ IF IsDisposed(th[t].p)
       THEN Finish(t, ExObjectDisposed, RVoid)
       ELSE IF th[t].op = "Refnum"
       THEN Finish(t, "returned", RRefnum(proxies[th[t].p].refnum))
       ELSE IF th[t].op = "IncRefnum" THEN Goto(t, "incgoref")
       ELSE Goto(t, "pendcheck")
    /\ UNCHANGED <<trackerVars, ret, regVars, auxVars, proxies, pending>>

\* Seq.ThrowIfPendingException(): dequeue one entry and throw it.
StepPending(t) ==
    /\ th[t].pc = "pendcheck"
    /\ IF pending # <<>>
       THEN /\ pending' = Tail(pending)
            /\ th' = [th EXCEPT ![t] =
                        Ended([th[t] EXCEPT !.dequeued = 1], ExPending, RVoid)]
       ELSE /\ Goto(t, "incgoref")
            /\ UNCHANGED pending
    /\ UNCHANGED <<trackerVars, ret, regVars, auxVars, proxies>>

\* Seq.IncGoRef(refnum, this); IncRefnum() returns the refnum after it.
StepIncGoRef(t) ==
    /\ th[t].pc = "incgoref"
    /\ IF th[t].op = "IncRefnum"
       THEN th' = [th EXCEPT ![t] =
                      Ended([th[t] EXCEPT !.natives = @ + 1], "returned",
                            RRefnum(proxies[th[t].p].refnum))]
       ELSE NativeThenGoto(t, "native")
    /\ UNCHANGED <<trackerVars, ret, regVars, auxVars, proxies, pending>>

\* The statements after the native call of a function, method or accessor
\* of result shape `shape` that returned `res`, up to its return, its throw
\* or the DestroyRef of its error path. base is the thread's record with
\* the native call counted.
AfterNative(t, base, shape, res) ==
    IF shape.resLen = 0
    THEN /\ th' = [th EXCEPT ![t] = Ended(base, "returned", RVoid)]
         /\ UNCHANGED proxies
    ELSE IF shape.resLen = 1 /\ shape.vt = "error"
    THEN /\ th' = [th EXCEPT ![t] =
                     Ended(base, IF res.r0 # NullRefNum
                                 THEN ExGoException ELSE "returned", RVoid)]
         /\ UNCHANGED proxies
    ELSE IF shape.resLen = 2 /\ isRefnumType(shape.vt) /\ res.r1 # NullRefNum
    THEN /\ th' = [th EXCEPT ![t] = [base EXCEPT !.pc = "err_destroy"]]
         /\ UNCHANGED proxies
    ELSE LET value == FromNative(shape.vt, res.r0)
             throws == shape.resLen = 2 /\ ~isRefnumType(shape.vt) /\ res.r1 # NullRefNum
         IN /\ value.kind = "proxy" => CanAllocProxy
            /\ proxies' =
                  IF value.kind = "proxy"
                  THEN MapPut(proxies, value.val,
                              NewProxy(ClassOf(shape.vt), res.r0, ~throws))
                  ELSE proxies
            /\ th' = [th EXCEPT ![t] =
                        Ended(base, IF value.kind = "throw" THEN value.ex
                                    ELSE IF throws THEN ExGoException
                                    ELSE "returned", value)]

\* The native entry of a method or accessor (proxy..., _Get, _Set) is
\* called with the proxy's refnum, Go returns, and the member goes on.
StepNative(t, member, shape, res) ==
    /\ th[t].pc = "native"
    /\ member \in MembersOf(proxies[th[t].p].cls)
    /\ shape \in ShapesOf(member)
    /\ res \in GoResults(shape)
    /\ AfterNative(t, [th[t] EXCEPT !.natives = @ + 1,
                                    !.refErr = shape.resLen = 2 /\ shape.vt \in
                                        {"pointer", "namedStruct", "namedInterface"},
                                    !.r0 = res.r0],
                   shape, res)
    /\ UNCHANGED <<trackerVars, ret, regVars, auxVars, pending>>

\* A thread calls a package function: no receiver, the native call, then
\* the same statements as after a method's call.
CallFunc(t, shape, res) ==
    /\ th[t].pc = "idle"
    /\ res \in GoResults(shape)
    /\ AfterNative(t, [Idle EXCEPT !.op = "func", !.natives = 1,
                                   !.skipped = pending # <<>>,
                                   !.refErr = shape.resLen = 2 /\ shape.vt \in
                                       {"pointer", "namedStruct", "namedInterface"},
                                   !.r0 = res.r0],
                   shape, res)
    /\ UNCHANGED <<trackerVars, ret, regVars, auxVars, pending>>

\* Seq.DestroyRef(res.r0) on the error path of a (refnum, error) result.
StepErrDestroy(t) ==
    /\ th[t].pc = "err_destroy"
    /\ th' = [th EXCEPT ![t].pc = "err_throw", ![t].natives = @ + 1,
                        ![t].valDestroyed = Append(@, th[t].r0)]
    /\ UNCHANGED <<trackerVars, ret, regVars, auxVars, proxies, pending>>

\* Seq.ThrowIfError(res.r1) with a non-null error refnum.
StepErrThrow(t) ==
    /\ th[t].pc = "err_throw"
    /\ Finish(t, ExGoException, RVoid)
    /\ UNCHANGED <<trackerVars, ret, regVars, auxVars, proxies, pending>>

\* A thread runs `new <Struct>(args)` with a constructor emitted from a Go
\* function: the object is allocated, the native call is made and
\* refnum = res.r0 (or res) is assigned; the error test follows.
CallCtor(t, shape, res) ==
    /\ th[t].pc = "idle"
    /\ shape \in CtorShapes
    /\ res \in GoResults(shape)
    /\ CanAllocProxy
    /\ LET throws == shape.resLen = 2 /\ res.r1 # NullRefNum
       IN /\ proxies' = MapPut(proxies, FreshProxy,
                               NewProxy("struct", res.r0, ~throws))
          /\ th' = [th EXCEPT ![t] =
                      LET rec == [Idle EXCEPT !.pc = "ctor_destroy", !.op = "ctor",
                                              !.p = FreshProxy, !.natives = 1,
                                              !.skipped = pending # <<>>,
                                              !.refErr = shape.resLen = 2,
                                              !.r0 = res.r0]
                      IN IF throws THEN rec
                         ELSE Ended(rec, "returned", RProxy(FreshProxy))]
    /\ UNCHANGED <<trackerVars, ret, regVars, auxVars, pending>>

\* Constructor error path: Seq.DestroyRef(refnum).
StepCtorDestroy(t) ==
    /\ th[t].pc = "ctor_destroy"
    /\ proxies' = [proxies EXCEPT ![th[t].p].ctorDestroyed = @ + 1]
    /\ th' = [th EXCEPT ![t].pc = "ctor_throw", ![t].natives = @ + 1,
                        ![t].valDestroyed = Append(@, proxies[th[t].p].refnum)]
    /\ UNCHANGED <<trackerVars, ret, regVars, auxVars, pending>>

\* Constructor error path: Seq.ThrowIfError(res.r1) throws; the object the
\* constructor ran on is unreachable and left to the finalizer.
StepCtorThrow(t) ==
    /\ th[t].pc = "ctor_throw"
    /\ Finish(t, ExGoException, RVoid)
    /\ UNCHANGED <<trackerVars, ret, regVars, auxVars, proxies, pending>>

\* The default constructor: refnum = Native.new_<pkg>_<struct>().
DefaultCtor(t, refnum) ==
    /\ th[t].pc = "idle"
    /\ CanAllocProxy
    /\ proxies' = MapPut(proxies, FreshProxy, NewProxy("struct", refnum, TRUE))
    /\ th' = [th EXCEPT ![t] =
                Ended([Idle EXCEPT !.natives = 1, !.skipped = pending # <<>>],
                      "returned", RProxy(FreshProxy))]
    /\ UNCHANGED <<trackerVars, ret, regVars, auxVars, pending>>

\* An exchange that reports "not yet disposed" to every caller.
ExchangeDisposed_Blind(p) == 0

\* Interlocked.Exchange(ref disposed, 1): the value it returns.
ExchangeDisposed(p) == proxies[p].disposed

\* Dispose(bool): the exchange on disposed; only the winner goes on.
StepDisposeXchg(t) ==
    /\ th[t].pc = "dispose_xchg"
    /\ proxies' = [proxies EXCEPT ![th[t].p].disposed = 1]
    /\ IF ExchangeDisposed(th[t].p) # 0
       THEN IF th[t].op = "finalize" THEN th' = [th EXCEPT ![t] = Idle]
            ELSE Goto(t, "dispose_suppress")
       ELSE Goto(t, "dispose_destroy")
    /\ UNCHANGED <<trackerVars, ret, regVars, auxVars, pending>>

\* Dispose(bool): Seq.DestroyRef(refnum).
StepDisposeDestroy(t) ==
    /\ th[t].pc = "dispose_destroy"
    /\ proxies' = [proxies EXCEPT ![th[t].p].destroyed = @ + 1]
    /\ IF th[t].op = "finalize"
       THEN th' = [th EXCEPT ![t] = Idle]
       ELSE NativeThenGoto(t, "dispose_suppress")
    /\ UNCHANGED <<trackerVars, ret, regVars, auxVars, pending>>

\* Dispose(): GC.SuppressFinalize(this).
StepDisposeSuppress(t) ==
    /\ th[t].pc = "dispose_suppress"
    /\ proxies' = [proxies EXCEPT ![th[t].p].finalizable = FALSE]
    /\ Finish(t, "returned", RVoid)
    /\ UNCHANGED <<trackerVars, ret, regVars, auxVars, pending>>

\* The program drops its last reference to proxy p.
Drop(p) ==
    /\ p \in DOMAIN proxies /\ proxies[p].held
    /\ proxies' = [proxies EXCEPT ![p].held = FALSE]
    /\ UNCHANGED <<trackerVars, ret, regVars, auxVars, pending, th>>

\* The finalizer thread runs ~<Proxy>() { Dispose(false); } on an
\* unreachable proxy whose finalization was not suppressed.
BeginFinalize(p) ==
    /\ th[FinThread].pc = "idle"
    /\ p \in DOMAIN proxies
    /\ ~proxies[p].held /\ proxies[p].finalizable
    /\ ~ThisLive(p)
    /\ proxies' = [proxies EXCEPT ![p].finalizable = FALSE]
    /\ th' = [th EXCEPT ![FinThread] =
                [Idle EXCEPT !.pc = "dispose_xchg", !.op = "finalize", !.p = p]]
    /\ UNCHANGED <<trackerVars, ret, regVars, auxVars, pending>>

\* The memory of an unreachable proxy with no finalizer left to run is
\* reclaimed.
Collect(p) ==
    /\ p \in DOMAIN proxies
    /\ ~proxies[p].held /\ ~proxies[p].finalizable
    /\ \A t \in Threads \cup {FinThread} : th[t].p # p
    /\ proxies' = MapRemove(proxies, p)
    /\ UNCHANGED <<trackerVars, ret, regVars, auxVars, pending, th>>

\* Seq.ReportUnhandledException(ex, method): a callback with no error
\* channel threw; the exception is enqueued.
ReportUnhandledException(ex) ==
    /\ Len(pending) < MaxPending
    /\ pending' = Append(pending, ex)
    /\ UNCHANGED <<trackerVars, ret, regVars, auxVars, proxies, th>>

(***************************************************************************)
(* Callback registration of an implementable interface, and dispatch       *)
(***************************************************************************)
\* A thread that marshals nothing.
RegIdle == [pc |-> "idle", i |-> 0, value |-> NullObj, refnum |-> 0]

\* The function pointer of the static delegate Callback_<m>Handler.
Handler(m) == m

RegGoto(t, pc) == regth' = [regth EXCEPT ![t].pc = pc]

\* emitToNativeParam for an argument typed as the interface: a thread is
\* about to pass managed object o to Go.
BeginPass(t, o) ==
    /\ ~aborted
    /\ regth[t].pc = "idle"
    /\ regth' = [regth EXCEPT ![t] = [RegIdle EXCEPT !.pc = "cas", !.value = o]]
    /\ UNCHANGED <<trackerVars, ret, proxies, pending, th, auxVars, registered, callback,
                   setterCalls, casWins, goHolds, dispatched, aborted>>

\* A compare-exchange that reports the comparand to every caller.
CompareExchange_Blind(location, value, comparand) == comparand

\* Interlocked.CompareExchange(ref location, value, comparand): the value it
\* returns, which is the one it found in location.
CompareExchange(location, value, comparand) == location

\* EnsureRegistered(): the CAS; a thread that finds the flag set returns.
StepCas(t) ==
    /\ ~aborted
    /\ regth[t].pc = "cas"
    /\ registered' = IF registered = 0 THEN 1 ELSE registered
    /\ IF CompareExchange(registered, 1, 0) # 0
       THEN /\ RegGoto(t, "incref")
            /\ UNCHANGED casWins
       ELSE /\ RegGoto(t, "touch")
            /\ casWins' = casWins + 1
    /\ UNCHANGED <<trackerVars, ret, proxies, pending, th, auxVars, callback, setterCalls,
                   goHolds, dispatched, aborted>>

\* EnsureRegistered(): Seq.Touch(), then the setters in method order.
StepTouch(t) ==
    /\ ~aborted
    /\ regth[t].pc = "touch"
    /\ regth' = [regth EXCEPT ![t].pc = "set", ![t].i = 1]
    /\ UNCHANGED <<trackerVars, ret, proxies, pending, th, auxVars, registered, callback,
                   setterCalls, casWins, goHolds, dispatched, aborted>>

\* EnsureRegistered(): Native.go_seq_set_cproxy..._<m>(pointer), whose C
\* body is atomic_store(&cproxy..._callback, fn).
StepSetter(t) ==
    /\ ~aborted
    /\ regth[t].pc = "set"
    /\ LET m == regth[t].i
       IN /\ callback' = [callback EXCEPT ![m] = Handler(m)]
          /\ setterCalls' = [setterCalls EXCEPT ![m] = @ + 1]
          /\ regth' = [regth EXCEPT ![t].pc = IF m = MaxMethods THEN "incref" ELSE "set",
                                    ![t].i = IF m = MaxMethods THEN 0 ELSE m + 1]
    /\ UNCHANGED <<trackerVars, ret, proxies, pending, th, auxVars, registered, casWins,
                   goHolds, dispatched, aborted>>

\* emitToNativeParam: var n = Seq.IncRef(value), after EnsureRegistered
\* returned.
StepPassIncRef(t) ==
    /\ ~aborted
    /\ regth[t].pc = "incref"
    /\ net[regth[t].value] < MaxCount
    /\ IncRef([kind |-> "object", id |-> regth[t].value])
    /\ regth' = [regth EXCEPT ![t].pc = "native",
                              ![t].refnum = IncRefnumFor(regth[t].value)]
    /\ UNCHANGED <<proxies, pending, th, auxVars, registered, callback, setterCalls,
                   casWins, goHolds, dispatched, aborted>>

\* The native entry is called with the refnum: Go now holds the managed
\* object and may call its methods from any goroutine.
StepPassNative(t) ==
    /\ ~aborted
    /\ regth[t].pc = "native"
    /\ goHolds' = goHolds \cup {regth[t].refnum}
    /\ regth' = [regth EXCEPT ![t] = RegIdle]
    /\ UNCHANGED <<trackerVars, ret, proxies, pending, th, auxVars, registered, callback,
                   setterCalls, casWins, dispatched, aborted>>

\* Argument values Go passes to a dispatcher and values a trampoline
\* returns to it.
BridgeValues == 0 .. MaxBridge

\* No call was made: the function, refnum, argument and returned value of a
\* call are absent.
NoCall == [calls |-> 0, callee |-> NullFn, refnum |-> 0, arg |-> 0, returned |-> 0]

BridgeIdle ==
    [m |-> 0, refnum |-> 0, arg |-> 0, loaded |-> NullFn,
     call |-> NoCall, aborted |-> FALSE, result |-> 0]

\* The dispatcher body without `if (fn == NULL) { abort(); ... }`.
cproxyCall_NoNullCheck(fn, refnum, arg, out) ==
    [call |-> [calls |-> 1, callee |-> fn, refnum |-> refnum, arg |-> arg,
               returned |-> out],
     aborted |-> FALSE, result |-> out]

\* The body of cproxy..._<m>(refnum, arg) after fn = atomic_load(&slot):
\* abort() when fn is NULL, else `return fn(refnum, arg);`, the called
\* function returning out.
cproxyCall(fn, refnum, arg, out) ==
    IF fn = NullFn
    THEN [call |-> NoCall, aborted |-> TRUE, result |-> 0]
    ELSE [call |-> [calls |-> 1, callee |-> fn, refnum |-> refnum, arg |-> arg,
                    returned |-> out],
          aborted |-> FALSE, result |-> out]

\* The C dispatcher cproxy..._<m>(refnum, arg): load the slot, abort() on
\* NULL, else call the managed trampoline, which returns out.
GoDispatch(r, m, arg, out) ==
    /\ ~aborted
    /\ r \in goHolds
    /\ LET fn == callback[m]
           run == cproxyCall(fn, r, arg, out)
       IN /\ bridge' = [m |-> m, refnum |-> r, arg |-> arg, loaded |-> fn,
                        call |-> run.call, aborted |-> run.aborted,
                        result |-> run.result]
          /\ aborted' = run.aborted
          /\ dispatched' = IF run.call.calls > 0 THEN dispatched \cup {m}
                           ELSE dispatched
    /\ UNCHANGED <<trackerVars, ret, proxies, pending, th, auxNotBridge, registered,
                   callback, setterCalls, casWins, regth, goHolds>>

(***************************************************************************)
(* Callback trampolines of an interface proxy class                        *)
(***************************************************************************)
\* Result shapes of a callable interface method: (), (error), (T), (T, error).
MethodKinds == {"void", "errorOnly", "value", "valueError"}

\* Wire values: scalars, NString / NByteslice records, refnums.
WScalar(v) == [w |-> "scalar", v |-> v, ptr |-> 0, len |-> 0]
WNString(ptr, len) == [w |-> "NString", v |-> 0, ptr |-> ptr, len |-> len]
WNByteslice(ptr, len) == [w |-> "NByteslice", v |-> 0, ptr |-> ptr, len |-> len]
WRefnum(r) == [w |-> "refnum", v |-> r, ptr |-> 0, len |-> 0]
WNone == [w |-> "none", v |-> 0, ptr |-> 0, len |-> 0]

\* defaultNativeReturn(t)
defaultNativeReturn(vt) ==
    IF vt = "string" THEN WNString(0, 0)
    ELSE IF vt = "slice" THEN WNByteslice(0, 0)
    ELSE IF vt \in {"pointer", "namedStruct", "namedInterface"} THEN WRefnum(NullRefNum)
    ELSE WScalar(0)

\* The wire value of a result the managed method returned: a non-zero
\* scalar, a non-empty buffer, or the refnum of the returned object.
ToNativeReturn(vt, refnum) ==
    IF vt = "string" THEN WNString(1, 1)
    ELSE IF vt = "slice" THEN WNByteslice(1, 1)
    ELSE IF vt \in {"pointer", "namedStruct", "namedInterface"} THEN WRefnum(refnum)
    ELSE WScalar(1)

\* Where a trampoline's try block can fail, and what the user's
\* UnhandledCallbackException hook does when it is called.
FailPoints == {"none", "unmarshal", "method", "marshal"}
HookOutcomes == {"unset", "returns", "throws"}

CbIdle ==
    [ran |-> FALSE, kind |-> "void", vt |-> "none", threw |-> "none", enq |-> 0,
     r0 |-> WNone, r1 |-> WNone, outcome |-> "none"]

\* A catch block that takes a (T) method for one with an error channel.
HasErrorChannel_ValueToo(kind) == kind # "void"

\* The catch block of a trampoline returns a Go error refnum for (error) and
\* (T, error) methods and reports to the queue for the others.
HasErrorChannel(kind) == kind \in {"errorOnly", "valueError"}

\* The point at which the try block throws, "none" if it completes:
\* Seq.GetRef(refnum), the parameters, instance.M(...) (on a null instance
\* too), the result's conversion.
ThrowPoint(kind, refnum, fail) ==
    IF GetRef(refnum).kind = "throw" THEN "getref"
    ELSE IF fail = "unmarshal" THEN fail
    ELSE IF GetRef(refnum).kind = "null" THEN "method"
    ELSE IF fail = "marshal" /\ kind \in {"void", "errorOnly"} THEN "none"
    ELSE fail

\* The run's record when the try block completed.
CbReturned(kind, vt, r) ==
    [ran |-> TRUE, kind |-> kind, vt |-> vt, threw |-> "none", enq |-> 0,
     r0 |-> IF kind = "void" THEN WNone
            ELSE IF kind = "errorOnly" THEN WRefnum(NullRefNum)
            ELSE ToNativeReturn(vt, r),
     r1 |-> IF kind = "valueError" THEN WRefnum(NullRefNum) ELSE WNone,
     outcome |-> "returned"]

\* The run's record when the catch block of a method with an error channel
\* returned error refnum e.
CbWrapped(kind, vt, point, e) ==
    [ran |-> TRUE, kind |-> kind, vt |-> vt, threw |-> point, enq |-> 0,
     r0 |-> IF kind = "errorOnly" THEN WRefnum(e) ELSE defaultNativeReturn(vt),
     r1 |-> IF kind = "valueError" THEN WRefnum(e) ELSE WNone,
     outcome |-> "returned"]

\* The run's record when the catch block called Seq.ReportUnhandledException:
\* the entry is enqueued, then the user hook runs (its exception leaves the
\* catch block), then FailFast if it is switched on, else the default is
\* returned.
CbReported(kind, vt, point, hook, failFast) ==
    [ran |-> TRUE, kind |-> kind, vt |-> vt, threw |-> point, enq |-> 1,
     r0 |-> IF hook = "throws" \/ failFast \/ kind = "void" THEN WNone
            ELSE defaultNativeReturn(vt),
     r1 |-> WNone,
     outcome |-> IF hook = "throws" THEN "escaped"
                 ELSE IF failFast THEN "failfast" ELSE "returned"]

\* Go's dispatcher calls the trampoline Callback_<m>Impl(refnum, ...) of a
\* method of the given kind and result type; the managed method returns
\* object o (for a reference result) unless the run fails at `fail`.
Trampoline(kind, vt, refnum, fail, o, hook, failFast) ==
    LET point == ThrowPoint(kind, refnum, fail)
        isRef == vt \in {"pointer", "namedStruct", "namedInterface"}
    IN /\ (kind \in {"void", "errorOnly"}) = (vt = "none")
       \* inputs that the run does not read are held at one value
       /\ (point = "none" \/ HasErrorChannel(kind)) => hook = "unset" /\ ~failFast
       /\ (point = "none" /\ ~isRef) => o = NullObj
       /\ (point # "none" /\ ~HasErrorChannel(kind)) => o = NullObj
       /\ IF point = "none"
          THEN /\ IF isRef /\ o # NullObj
                  THEN /\ net[o] < MaxCount
                       /\ o \in DOMAIN objectRefs \/ nextRefnum < RefOffset + MaxAlloc
                       /\ Inc(o)
                       /\ cb' = CbReturned(kind, vt, IncRefnumFor(o))
                  ELSE /\ cb' = CbReturned(kind, vt, NullRefNum)
                       /\ UNCHANGED <<trackerVars, ret>>
               /\ UNCHANGED pending
          ELSE IF HasErrorChannel(kind)
          THEN /\ o \in Objects \ DOMAIN objectRefs
               /\ nextRefnum < RefOffset + MaxAlloc
               /\ Inc(o)
               /\ cb' = CbWrapped(kind, vt, point, IncRefnumFor(o))
               /\ UNCHANGED pending
          ELSE /\ Len(pending) < MaxPending
               /\ pending' = Append(pending, "callback exception")
               /\ cb' = CbReported(kind, vt, point, hook, failFast)
               /\ UNCHANGED <<trackerVars, ret>>
       /\ UNCHANGED <<proxies, th, regVars, auxNotCb>>

\* A later crossing from managed code runs Seq.ThrowIfPendingException().
ThrowIfPendingException ==
    /\ pending # <<>>
    /\ pending' = Tail(pending)
    /\ UNCHANGED <<trackerVars, ret, proxies, th, regVars, auxVars>>

(***************************************************************************)
(* Static initialisation and the order of native calls                     *)
(***************************************************************************)
\* The log after the given native calls, kept up to MaxLog entries.
Logged(calls) == SubSeq(nativeLog \o calls, 1,
                        IF Len(nativeLog \o calls) < MaxLog
                        THEN Len(nativeLog \o calls) ELSE MaxLog)

\* static Seq(): the native calls its first run makes; any use of a member
\* of Seq runs it first, once.
SeqCctor ==
    IF seqInitialized THEN <<>>
    ELSE <<"go_seq_init", "go_seq_set_inc_ref", "go_seq_set_dec_ref">>

\* A member of the package class is used: its static constructor calls
\* Seq.Touch() on first use; then the native entry of the function or
\* variable accessor is called.
UsePackageMember(entry) ==
    /\ nativeLog' = Logged((IF pkgInitialized THEN <<>> ELSE SeqCctor) \o <<entry>>)
    /\ seqInitialized' = (seqInitialized \/ ~pkgInitialized)
    /\ pkgInitialized' = TRUE
    /\ UNCHANGED <<trackerVars, ret, proxies, pending, th, regVars, auxNotInit,
                   constructed>>

\* new <Struct>(): refnum = Native.new_<pkg>_<struct>(), with no use of Seq.
NewDefault ==
    /\ nativeLog' = Logged(<<"new_struct">>)
    /\ constructed' = TRUE
    /\ UNCHANGED <<trackerVars, ret, proxies, pending, th, regVars, auxNotInit,
                   seqInitialized, pkgInitialized>>

\* new <Struct>(args) from a Go function: the arguments are marshalled
\* (through Seq when one is a string, a byte slice or a reference), the
\* native entry is called, and on a Go error Seq.DestroyRef runs.
NewFromFunc(usesSeq, goError) ==
    /\ nativeLog' =
          Logged((IF usesSeq THEN SeqCctor ELSE <<>>) \o <<"proxy_ctor">>
                 \o (IF goError
                     THEN (IF usesSeq THEN <<>> ELSE SeqCctor) \o <<"DestroyRef">>
                     ELSE <<>>))
    /\ seqInitialized' = (seqInitialized \/ usesSeq \/ goError)
    /\ constructed' = (constructed \/ ~goError)
    /\ UNCHANGED <<trackerVars, ret, proxies, pending, th, regVars, auxNotInit,
                   pkgInitialized>>

\* A method or accessor of an existing struct proxy:
\* Seq.ThrowIfPendingException(), Seq.IncGoRef, the native entry.
UseStructMember ==
    /\ constructed
    /\ pending = <<>>
    /\ nativeLog' = Logged(SeqCctor \o <<"IncGoRef", "proxy_method">>)
    /\ seqInitialized' = TRUE
    /\ UNCHANGED <<trackerVars, ret, proxies, pending, th, regVars, auxNotInit,
                   pkgInitialized, constructed>>

\* The first EnsureRegistered() of an interface, as one step: the CAS,
\* Seq.Touch(), the setters.
RegisterInterface ==
    /\ registered = 0
    /\ registered' = 1
    /\ casWins' = casWins + 1
    /\ callback' = [m \in Methods |-> Handler(m)]
    /\ setterCalls' = [m \in Methods |-> setterCalls[m] + 1]
    /\ nativeLog' = Logged(SeqCctor \o [m \in Methods |-> "go_seq_set_cproxy"])
    /\ seqInitialized' = TRUE
    /\ UNCHANGED <<trackerVars, ret, proxies, pending, th, regth, goHolds,
                   dispatched, aborted, auxNotInit, pkgInitialized, constructed>>

(***************************************************************************)
(* Marshalling the arguments and the result of a managed-to-Go call        *)
(***************************************************************************)
\* Callables by receiver and buffer mode: package function or constructor,
\* method, field setter, package variable setter.
Callees ==
    {[recv |-> FALSE, mode |-> "transient"], [recv |-> TRUE, mode |-> "transient"],
     [recv |-> TRUE, mode |-> "retained"], [recv |-> FALSE, mode |-> "retained"]}

\* Arguments: a scalar; an empty or non-empty string or byte array; null, a
\* managed object, a live proxy (-1) or a disposed proxy (-2).
ArgValues ==
    {[kind |-> "basic", val |-> 0]}
      \cup {[kind |-> k, val |-> n] : k \in {"string", "slice"}, n \in {0, 1}}
      \cup {[kind |-> "ref", val |-> v] : v \in {NullObj, -1, -2} \cup Objects}

\* Argument lists of up to MaxParams arguments; a setter has one.
ArgLists(callee) ==
    IF callee.mode = "retained" THEN {<<a>> : a \in ArgValues}
    ELSE UNION {[1 .. n -> ArgValues] : n \in 0 .. MaxParams}

McIdle ==
    [pc |-> "idle", callee |-> [recv |-> FALSE, mode |-> "transient"],
     args |-> <<>>, i |-> 0, incs |-> 0, decs |-> 0, native |-> FALSE,
     thrown |-> FALSE, bufs |-> <<>>]

\* A thread calls an emitted callable: ThrowIfDisposed and
\* ThrowIfPendingException passed, Seq.IncGoRef(refnum, this) if it has a
\* receiver.
BeginMarshal(callee, args) ==
    /\ mcall.pc \in {"idle", "done"}
    /\ args \in ArgLists(callee)
    /\ mcall' = [McIdle EXCEPT !.pc = "args", !.callee = callee, !.args = args,
                               !.i = 1, !.incs = IF callee.recv THEN 1 ELSE 0]
    /\ UNCHANGED <<trackerVars, ret, proxies, pending, th, regVars, auxNotMarshal, conv>>

\* StringToNString / BytesToNByteslice: the buffer allocated for an
\* argument of n bytes, none for an empty one.
NewBuffer(kind, n) == [kind |-> kind, zero |-> n = 0, frees |-> 0]

\* emitToNativeParam for the next argument: a cast, a buffer, or Seq.IncRef,
\* which throws on a disposed proxy.
StepArg ==
    /\ mcall.pc = "args" /\ mcall.i <= Len(mcall.args)
    /\ LET a == mcall.args[mcall.i]
           next == [mcall EXCEPT !.i = @ + 1]
       IN IF a.kind = "ref" /\ a.val \in Objects
          THEN /\ net[a.val] < MaxCount
               /\ a.val \in DOMAIN objectRefs \/ nextRefnum < RefOffset + MaxAlloc
               /\ Inc(a.val)
               /\ mcall' = [next EXCEPT !.incs = @ + 1]
          ELSE /\ mcall' =
                     IF a.kind \in {"string", "slice"}
                     THEN [next EXCEPT !.bufs = Append(@, NewBuffer(a.kind, a.val))]
                     ELSE IF a.kind = "ref" /\ a.val = -1
                     THEN [next EXCEPT !.incs = @ + 1]
                     ELSE IF a.kind = "ref" /\ a.val = -2
                     THEN [mcall EXCEPT !.pc = "done", !.thrown = TRUE]
                     ELSE next
               /\ UNCHANGED <<trackerVars, ret>>
    /\ UNCHANGED <<proxies, pending, th, regVars, auxNotMarshal, conv>>

\* A free-after-call rule that ignores the mode.
shouldFreeAfterCall_AnyMode(kind, mode) == kind = "slice"

\* shouldFreeAfterCall(t, mode)
shouldFreeAfterCall(kind, mode) == mode # "retained" /\ kind = "slice"

\* emitFreeNativeParam: if (n.ptr != IntPtr.Zero) { Seq.Free(n.ptr); }
FreeAfterCall(buf, mode) ==
    IF shouldFreeAfterCall(buf.kind, mode) /\ ~buf.zero
    THEN [buf EXCEPT !.frees = @ + 1] ELSE buf

\* NStringToString(value) / NBytesliceToBytes(value, free) on a wire value
\* of n bytes: an empty result for the zero value, else a copy and the free.
FromNativeBuffer(site, kind, n, free) ==
    [site |-> site, kind |-> kind, zero |-> n = 0, copied |-> n # 0,
     frees |-> IF n # 0 /\ (kind = "string" \/ free) THEN 1 ELSE 0]

ConvIdle == [site |-> "none", kind |-> "none", zero |-> TRUE, copied |-> FALSE, frees |-> 0]

\* All arguments are marshalled: the native entry is called, the transient
\* byte-slice buffers are freed, and a string or byte-slice result of n bytes
\* is converted with freeBytes = true.
StepCall(rt, n) ==
    /\ mcall.pc = "args" /\ mcall.i > Len(mcall.args)
    /\ rt = "none" => n = 0
    /\ mcall' = [mcall EXCEPT !.pc = "done", !.native = TRUE,
                              !.bufs = [k \in DOMAIN @ |->
                                           FreeAfterCall(@[k], mcall.callee.mode)]]
    /\ conv' = IF rt = "none" THEN conv ELSE FromNativeBuffer("return", rt, n, TRUE)
    /\ UNCHANGED <<trackerVars, ret, proxies, pending, th, regVars, auxNotMarshal>>

\* emitFromNativeParam in a trampoline, for a string or byte-slice
\* parameter of n bytes: byte slices are converted with free = false.
CallbackParam(kind, n) ==
    /\ conv' = FromNativeBuffer("cbparam", kind, n, FALSE)
    /\ UNCHANGED <<trackerVars, ret, proxies, pending, th, regVars, auxNotMarshal, mcall>>

(***************************************************************************)
(* The string and byte-slice helpers of Seq                                *)
(***************************************************************************)
\* A null string or a null byte[].
NullValue == <<-1>>

\* Strings are sequences of UTF-16 code units: 'a', U+00E9, U+20AC and the
\* two surrogates of U+1F600.  Byte arrays are sequences of bytes.
CodeUnits == {97, 233, 8364, 55357, 56832}
ByteValues == {0, 65, 255}
SeqsUpTo(S, n) == UNION {[1 .. k -> S] : k \in 0 .. n}

IsHigh(u) == u \in 55296 .. 56319
IsLow(u) == u \in 56320 .. 57343

\* An encoder that keeps the low byte of a code point.
EncodeRune_Narrow(c) == <<c % 256>>

\* The UTF-8 bytes of code point c.
EncodeRune(c) ==
    IF c < 128 THEN <<c>>
    ELSE IF c < 2048 THEN <<192 + (c \div 64), 128 + (c % 64)>>
    ELSE IF c < 65536
    THEN <<224 + (c \div 4096), 128 + ((c \div 64) % 64), 128 + (c % 64)>>
    ELSE <<240 + (c \div 262144), 128 + ((c \div 4096) % 64),
           128 + ((c \div 64) % 64), 128 + (c % 64)>>

\* Encoding.UTF8.GetBytes(value): a surrogate pair is one code point, an
\* unpaired surrogate is replaced by U+FFFD.
RECURSIVE UTF8GetBytes(_)
UTF8GetBytes(s) ==
    IF s = <<>> THEN <<>>
    ELSE IF Len(s) >= 2 /\ IsHigh(s[1]) /\ IsLow(s[2])
    THEN EncodeRune(65536 + (s[1] - 55296) * 1024 + (s[2] - 56320))
           \o UTF8GetBytes(SubSeq(s, 3, Len(s)))
    ELSE IF IsHigh(s[1]) \/ IsLow(s[1])
    THEN EncodeRune(65533) \o UTF8GetBytes(Tail(s))
    ELSE EncodeRune(s[1]) \o UTF8GetBytes(Tail(s))

\* Marshal.PtrToStringUTF8(ptr, len) on the bytes at ptr: an ill-formed
\* byte decodes to U+FFFD.
RECURSIVE PtrToStringUTF8(_)
PtrToStringUTF8(b) ==
    IF b = <<>> THEN <<>>
    ELSE LET n == IF b[1] < 128 THEN 1
                  ELSE IF b[1] \in 192 .. 223 THEN 2
                  ELSE IF b[1] \in 224 .. 239 THEN 3
                  ELSE IF b[1] \in 240 .. 247 THEN 4 ELSE 0
             ok == n > 0 /\ Len(b) >= n /\ \A k \in 2 .. n : b[k] \in 128 .. 191
             c == IF n = 1 THEN b[1]
                  ELSE IF n = 2 THEN (b[1] - 192) * 64 + (b[2] - 128)
                  ELSE IF n = 3
                  THEN (b[1] - 224) * 4096 + (b[2] - 128) * 64 + (b[3] - 128)
                  ELSE (b[1] - 240) * 262144 + (b[2] - 128) * 4096
                         + (b[3] - 128) * 64 + (b[4] - 128)
         IN IF ~ok THEN <<65533>> \o PtrToStringUTF8(Tail(b))
            ELSE (IF c >= 65536
                  THEN <<55296 + ((c - 65536) \div 1024), 56320 + ((c - 65536) % 1024)>>
                  ELSE <<c>>) \o PtrToStringUTF8(SubSeq(b, n + 1, Len(b)))

\* new NString() / new NByteslice(): no buffer.  mem is the memory at ptr,
\* allocs the number of Alloc calls made to build the value.
NZero == [ptr |-> 0, len |-> 0, mem |-> <<>>, allocs |-> 0]

\* Alloc(bytes.Length) and Marshal.Copy(bytes, 0, ptr, bytes.Length)
Allocated(bytes) == [ptr |-> 1, len |-> Len(bytes), mem |-> bytes, allocs |-> 1]

StringToNString(value) ==
    IF value = NullValue \/ value = <<>> THEN NZero
    ELSE Allocated(UTF8GetBytes(value))

NStringToString(value) ==
    IF value.ptr = 0 \/ value.len = 0 THEN <<>>
    ELSE PtrToStringUTF8(SubSeq(value.mem, 1, value.len))

BytesToNByteslice(value) ==
    IF value = NullValue \/ value = <<>> THEN NZero ELSE Allocated(value)

NBytesliceToBytes(value, free) ==
    IF value.ptr = 0 \/ value.len = 0 THEN <<>>
    ELSE SubSeq(value.mem, 1, value.len)

\* A string goes to its wire value and back.
RoundTripString(s) ==
    /\ applied' = [fn |-> "string", in |-> s, wire |-> StringToNString(s),
                   out |-> NStringToString(StringToNString(s))]
    /\ UNCHANGED progVars

\* A byte array goes to its wire value and back.
RoundTripBytes(b, free) ==
    /\ applied' = [fn |-> "bytes", in |-> b, wire |-> BytesToNByteslice(b),
                   out |-> NBytesliceToBytes(BytesToNByteslice(b), free)]
    /\ UNCHANGED progVars

(***************************************************************************)
(* The identifier sanitizer of the generator                               *)
(***************************************************************************)
\* Names are sequences of characters: letters, a digit, '_' and characters
\* that no identifier may hold.
Letters == {"e", "r", "o", "f"}
Digits == {"1"}
Chars == Letters \cup Digits \cup {"_", "-", "."}

\* The letters [A-Za-z] that occur in names: those of sanitised inputs and
\* those of the names the generator builds.
IdentLetters ==
    Letters \cup {"a", "c", "g", "i", "n", "p", "q", "s", "t", "u", "v", "w", "x", "y",
                  "C", "E", "F", "G", "N", "O", "P", "R", "S"}

RECURSIVE Str(_)
Str(s) == IF s = <<>> THEN "" ELSE s[1] \o Str(Tail(s))

\* The reserved words given to newNameSanitizer.
csharpKeywords ==
    {"abstract", "as", "base", "bool", "break", "byte", "case", "catch", "char",
     "checked", "class", "const", "continue", "decimal", "default", "delegate", "do",
     "double", "else", "enum", "event", "explicit", "extern", "false", "finally",
     "fixed", "float", "for", "foreach", "goto", "if", "implicit", "in", "int",
     "interface", "internal", "is", "lock", "long", "namespace", "new", "null",
     "object", "operator", "out", "override", "params", "private", "protected",
     "public", "readonly", "ref", "return", "sbyte", "sealed", "short", "sizeof",
     "stackalloc", "static", "string", "struct", "switch", "this", "throw", "true",
     "try", "typeof", "uint", "ulong", "unchecked", "unsafe", "ushort", "using",
     "virtual", "void", "volatile", "while", "record", "init", "when", "yield", "add",
     "remove", "value", "var", "dynamic"}

\* The function newNameSanitizer returns: a reserved word gets the suffix
\* "_", any other name is returned as it is.
newNameSanitizer(res, s) == IF Str(s) \in res THEN Append(s, "_") ELSE s

csharpNameReplacer(s) == newNameSanitizer(csharpKeywords, s)

\* csharpIdentifierRe.ReplaceAllString(name, "_") with [^A-Za-z0-9_]
ReplaceAllString(name) ==
    [k \in DOMAIN name |->
        IF name[k] \in IdentLetters \cup Digits \cup {"_"} THEN name[k] ELSE "_"]

csIdentifier(name) ==
    IF name = <<>> THEN name
    ELSE LET replaced == ReplaceAllString(csharpNameReplacer(name))
         IN IF replaced = <<>> THEN <<"_">>
            ELSE IF replaced[1] # "_" /\ replaced[1] \notin IdentLetters
            THEN <<"_">> \o replaced ELSE replaced

\* The generator sanitises a name, and then its own result.
Sanitize(n) ==
    /\ applied' = [fn |-> "csIdentifier", in |-> n, out |-> csIdentifier(n),
                   again |-> csIdentifier(csIdentifier(n))]
    /\ UNCHANGED progVars

(***************************************************************************)
(* The type mapper of the generator                                        *)
(***************************************************************************)
\* types.BasicKind
BasicKinds ==
    {"Bool", "Int", "Int8", "Int16", "Int32", "Int64", "Uint", "Uint8", "Uint16",
     "Uint32", "Uint64", "Uintptr", "Float32", "Float64", "Complex64", "Complex128",
     "String", "UnsafePointer", "UntypedBool", "UntypedInt", "UntypedRune",
     "UntypedFloat", "UntypedComplex", "UntypedString", "UntypedNil"}

\* The universe type error: obj.Pkg() == nil && obj.Name() == "error"
ErrorType == [t |-> "Named", name |-> <<"e", "r", "r", "o", "r">>, pkg |-> "nil"]

\* Basic types, named types of the bound package, of another bound package
\* and of a package that is not bound, and the types of no other case.
Types0 ==
    {[t |-> "Basic", kind |-> k] : k \in BasicKinds}
      \cup {[t |-> "Named", name |-> n, pkg |-> p] :
              n \in {<<"r", "e">>, <<"f", "o", "r">>}, p \in {"this", "bound", "unbound"}}
      \cup {ErrorType}
      \cup {[t |-> k] : k \in {"Map", "Chan", "Signature", "Array", "Struct", "Interface"}}

\* The types of up to d slice and pointer constructors.
RECURSIVE TypesUpTo(_)
TypesUpTo(d) ==
    IF d = 0 THEN Types0
    ELSE LET S == TypesUpTo(d - 1)
         IN S \cup {[t |-> "Slice", elem |-> e] : e \in S}
              \cup {[t |-> "Pointer", elem |-> e] : e \in S}

\* The basic kinds csType names, with their managed surface types.
csBasicType ==
    [Bool |-> "bool", UntypedBool |-> "bool", Int |-> "long", Int8 |-> "sbyte",
     Int16 |-> "short", Int32 |-> "int", UntypedRune |-> "int", Int64 |-> "long",
     UntypedInt |-> "long", Uint8 |-> "byte", Float32 |-> "float",
     Float64 |-> "double", UntypedFloat |-> "double", String |-> "string",
     UntypedString |-> "string"]

\* A returned type name, and the number of g.errorf calls made.
Mapped(cs, diags) == [cs |-> cs, diags |-> diags]

IsByteSlice(t) == t.t = "Slice" /\ t.elem.t = "Basic" /\ t.elem.kind = "Uint8"

\* g.csNamespace(obj.Pkg()) with no namespace option, for the package other
csNamespace == "Go.Other"

RECURSIVE csType(_)
csType(t) ==
    CASE t.t = "Basic" ->
           IF t.kind \in DOMAIN csBasicType THEN Mapped(csBasicType[t.kind], 0)
           ELSE Mapped("object", 1)
      [] t.t = "Slice" ->
           IF IsByteSlice(t) THEN Mapped("byte[]", 0) ELSE Mapped("object", 1)
      [] t.t = "Pointer" -> csType(t.elem)
      [] t.t = "Named" ->
           IF t.pkg = "nil" /\ Str(t.name) = "error" THEN Mapped("Error", 0)
           ELSE IF t.pkg \in {"nil", "this"} THEN Mapped(Str(csIdentifier(t.name)), 0)
           ELSE IF t.pkg = "unbound" THEN Mapped(Str(csIdentifier(t.name)), 1)
           ELSE Mapped(csNamespace \o "." \o Str(csIdentifier(t.name)), 0)
      [] OTHER -> Mapped("object", 1)

csNativeType(t) ==
    CASE t.t = "Basic" ->
           IF t.kind \in {"Bool", "UntypedBool"} THEN Mapped("byte", 0)
           ELSE IF t.kind \in {"String", "UntypedString"} THEN Mapped("NString", 0)
           ELSE IF t.kind \in DOMAIN csBasicType THEN Mapped(csBasicType[t.kind], 0)
           ELSE Mapped("int", 1)
      [] t.t = "Slice" ->
           IF IsByteSlice(t) THEN Mapped("NByteslice", 0) ELSE Mapped("int", 1)
      [] t.t = "Pointer" -> Mapped("int", 0)
      [] t.t = "Named" -> Mapped("int", 0)
      [] OTHER -> Mapped("int", 1)

\* The generator asks for the surface and the wire type of a Go type.
MapType(t) ==
    /\ applied' = [fn |-> "type", in |-> t, surface |-> csType(t),
                   wire |-> csNativeType(t)]
    /\ UNCHANGED progVars

\* The state outside the tracker after construction.
InitRest ==
    /\ ret = [op |-> "none", arg |-> 0, res |-> RVoid]
    /\ proxies = EmptyMap
    /\ pending = <<>>
    /\ th = [t \in Threads \cup {FinThread} |-> Idle]
    /\ registered = 0
    /\ callback = [m \in Methods |-> NullFn]
    /\ setterCalls = [m \in Methods |-> 0]
    /\ casWins = 0
    /\ regth = [t \in Threads |-> RegIdle]
    /\ goHolds = {}
    /\ dispatched = {}
    /\ aborted = FALSE
    /\ cb = CbIdle
    /\ nativeLog = <<>>
    /\ seqInitialized = FALSE
    /\ pkgInitialized = FALSE
    /\ constructed = FALSE
    /\ mcall = McIdle
    /\ conv = ConvIdle
    /\ bridge = BridgeIdle
    /\ applied = [fn |-> "none"]

Init ==
    /\ nextRefnum = RefOffset
    /\ refs = EmptyMap
    /\ objectRefs = EmptyMap
    /\ net = [o \in Objects |-> 0]
    /\ handed = [o \in Objects |-> {}]
    /\ InitRest

NextTracker ==
    \/ \E v \in ManagedValues : CallIncRef(v)
    \/ \E r \in RefnumInputs : GoIncRefnum(r)
    \/ \E r \in RefnumInputs : GoDecRefnum(r)
    \/ \E r \in RefnumInputs : CallGetRef(r)
    \/ \E cls \in {"struct", "iface"} : \E r \in WireRefnums(cls) : CallFromRefnum(cls, r)

SpecTracker == Init /\ [][NextTracker]_vars

NextProxy ==
    \/ \E t \in Threads : \E p \in ProxyIds :
          \E op \in {"Dispose", "Refnum", "IncRefnum", "member"} :
             BeginCall(t, op, p)
    \/ \E t \in Threads : StepCheck(t)
    \/ \E t \in Threads : StepPending(t)
    \/ \E t \in Threads : StepIncGoRef(t)
    \/ \E t \in Threads : \E member \in {"method", "get", "set"} :
          \E shape \in Shapes : \E res \in GoResults(shape) :
             StepNative(t, member, shape, res)
    \/ \E t \in Threads : \E shape \in Shapes : \E res \in GoResults(shape) :
          CallFunc(t, shape, res)
    \/ \E t \in Threads : StepErrDestroy(t)
    \/ \E t \in Threads : StepErrThrow(t)
    \/ \E t \in Threads : \E shape \in CtorShapes : \E res \in GoResults(shape) :
          CallCtor(t, shape, res)
    \/ \E t \in Threads : StepCtorDestroy(t)
    \/ \E t \in Threads : StepCtorThrow(t)
    \/ \E t \in Threads : \E r \in GoRefs : DefaultCtor(t, r)
    \/ \E t \in Threads \cup {FinThread} : StepDisposeXchg(t)
    \/ \E t \in Threads \cup {FinThread} : StepDisposeDestroy(t)
    \/ \E t \in Threads : StepDisposeSuppress(t)
    \/ \E p \in ProxyIds : Drop(p)
    \/ \E p \in ProxyIds : BeginFinalize(p)
    \/ \E p \in ProxyIds : Collect(p)
    \/ ReportUnhandledException("callback exception")

SpecProxy == Init /\ [][NextProxy]_vars

NextReg ==
    \/ \E t \in Threads : \E o \in Objects : BeginPass(t, o)
    \/ \E t \in Threads : StepCas(t)
    \/ \E t \in Threads : StepTouch(t)
    \/ \E t \in Threads : StepSetter(t)
    \/ \E t \in Threads : StepPassIncRef(t)
    \/ \E t \in Threads : StepPassNative(t)
    \/ \E r \in RefnumInputs : \E m \in Methods :
          \E arg \in BridgeValues : \E out \in BridgeValues :
             GoDispatch(r, m, arg, out)

SpecReg == Init /\ [][NextReg]_vars

NextCallback ==
    \/ \E o \in Objects : CallIncRef([kind |-> "object", id |-> o])
    \/ \E kind \in MethodKinds : \E vt \in TypeKinds \cup {"none"} :
          \E r \in RefnumInputs : \E fail \in FailPoints :
             \E o \in Objects \cup {NullObj} : \E hook \in HookOutcomes :
                \E failFast \in BOOLEAN :
                   Trampoline(kind, vt, r, fail, o, hook, failFast)
    \/ ThrowIfPendingException

SpecCallback == Init /\ [][NextCallback]_vars

NextInit ==
    \/ \E entry \in {"proxy_func", "var_get", "var_set"} : UsePackageMember(entry)
    \/ NewDefault
    \/ \E usesSeq, goError \in BOOLEAN : NewFromFunc(usesSeq, goError)
    \/ UseStructMember
    \/ RegisterInterface

SpecInit == Init /\ [][NextInit]_vars

NextMarshal ==
    \/ \E callee \in Callees : \E args \in ArgLists(callee) : BeginMarshal(callee, args)
    \/ StepArg
    \/ \E rt \in {"none", "string", "slice"} : \E n \in {0, 1} : StepCall(rt, n)
    \/ \E kind \in {"string", "slice"} : \E n \in {0, 1} : CallbackParam(kind, n)

SpecMarshal == Init /\ [][NextMarshal]_vars

NextPure ==
    \/ \E s \in SeqsUpTo(CodeUnits, MaxLen) \cup {NullValue} : RoundTripString(s)
    \/ \E b \in SeqsUpTo(ByteValues, MaxLen) \cup {NullValue} :
          \E free \in BOOLEAN : RoundTripBytes(b, free)
    \/ \E n \in SeqsUpTo(Chars, MaxLen) : Sanitize(n)
    \/ \E t \in TypesUpTo(MaxDepth) : MapType(t)

SpecPure == Init /\ [][NextPure]_vars

(***************************************************************************)
(* Properties of the reference tracker                                     *)
(***************************************************************************)
AllHanded == UNION {handed[o] : o \in Objects}

\* C2: refcount conservation. An object whose increments and decrements
\* balance has no entry in either map, and the count of every other entry
\* is the number of increments minus the number of decrements applied to it.
RefcountConservation ==
    /\ \A o \in Objects :
          IF net[o] = 0
          THEN /\ o \notin DOMAIN objectRefs
               /\ \A r \in DOMAIN refs : refs[r].Value # o
          ELSE /\ o \in DOMAIN objectRefs
               /\ objectRefs[o] \in DOMAIN refs
               /\ refs[objectRefs[o]].Value = o
               /\ refs[objectRefs[o]].Count = net[o]
    /\ (\A o \in Objects : net[o] = 0) => (refs = EmptyMap /\ objectRefs = EmptyMap)

\* One object was passed and released again (balanced, dropped) while
\* another one holds two outstanding references.
RefcountConservationWitness ==
    \E o1, o2 \in Objects :
        /\ handed[o1] # {} /\ net[o1] = 0 /\ o1 \notin DOMAIN objectRefs
        /\ net[o2] = 2 /\ o2 \in DOMAIN objectRefs

\* C3: identity interning. An Inc(x) issued while x has an entry returns
\* the refnum of that entry, the refnum of an entry never changes while
\* the entry exists, and two tracked objects never share a refnum.
IdentityInterning ==
    /\ [][(ret'.op = "Inc" /\ ret'.res.kind = "refnum" /\ ret'.arg # NullObj)
           => /\ ret'.arg \in DOMAIN objectRefs'
              /\ objectRefs'[ret'.arg] = ret'.res.val
              /\ ret'.arg \in DOMAIN objectRefs
                   => ret'.res.val = objectRefs[ret'.arg]]_vars
    /\ [][\A o \in (DOMAIN objectRefs) \cap (DOMAIN objectRefs') :
             objectRefs'[o] = objectRefs[o]]_vars
    /\ [](\A o1, o2 \in DOMAIN objectRefs :
             o1 # o2 => objectRefs[o1] # objectRefs[o2])

\* An object was interned, dropped and interned again under a new refnum,
\* and in its second life two Inc calls shared that refnum, while a second
\* object is tracked too.
IdentityInterningWitness ==
    \E o1, o2 \in DOMAIN objectRefs :
        /\ o1 # o2
        /\ Cardinality(handed[o1]) = 2
        /\ net[o1] = 2
        /\ ret.op = "Inc" /\ ret.arg = o1 /\ ret.res.val = objectRefs[o1]

\* C4: the refnum sentinel. IncRef(null) returns NullRefNum and leaves the
\* tracker alone; FromRefnum(NullRefNum) is null for struct classes and
\* interface proxies; GetRef(NullRefNum) is null and does not throw.
RefnumSentinel ==
    /\ []((ret.op = "IncRef" /\ ret.arg = NullObj) => ret.res = RRefnum(NullRefNum))
    /\ []((ret.op \in {"StructFromRefnum", "IfaceFromRefnum", "GetRef"}
            /\ ret.arg = NullRefNum) => ret.res = RNull)
    /\ [][ret'.op = "IncRef" => UNCHANGED trackerVars]_vars

\* GetRef(NullRefNum) was called on a tracker that holds entries.
RefnumSentinelWitness ==
    /\ ret.op = "GetRef" /\ ret.arg = NullRefNum /\ ret.res = RNull
    /\ refs # EmptyMap

\* C5: closed refnum space. Every refnum the tracker hands out is at least
\* RefOffset, is not NullRefNum, the first one is RefOffset, each newly
\* allocated one is greater than every earlier one, and none is given to an
\* object while an entry of another object holds it.
ClosedRefnumSpace ==
    /\ [](\A r \in AllHanded : r >= RefOffset /\ r # NullRefNum /\ r < nextRefnum)
    /\ [](AllHanded # {} => RefOffset \in AllHanded)
    /\ [][\A o \in Objects : \A r \in handed'[o] \ handed[o] :
             /\ \A r2 \in AllHanded : r > r2
             /\ r \notin DOMAIN refs]_vars
    /\ [](\A r \in DOMAIN refs : \A o \in DOMAIN objectRefs :
             objectRefs[o] = r => refs[r].Value = o)

\* Three refnums were allocated, the third after an earlier entry was dropped.
ClosedRefnumSpaceWitness ==
    /\ Cardinality(AllHanded) >= 3
    /\ \E o \in Objects : Cardinality(handed[o]) >= 2

(***************************************************************************)
(* Properties of the emitted proxy classes                                 *)
(***************************************************************************)
\* The threads, finalizer thread included, running Dispose(bool) on proxy p
\* between its exchange and its DestroyRef.
Destroying(p) ==
    {t \in Threads \cup {FinThread} : th[t].p = p /\ th[t].pc = "dispose_destroy"}

\* C1 (Dispose idempotence): for every proxy object, whatever number of
\* Dispose() calls and finalizer runs and however they interleave, Dispose(bool)
\* issues DestroyRef for its refnum at most once, not at all while the proxy is
\* live, and exactly once as soon as the disposal that won the exchange on
\* `disposed` has gone past its DestroyRef; every later disposal issues none.
DisposeIdempotence ==
    \A p \in DOMAIN proxies :
        /\ proxies[p].destroyed <= 1
        /\ Cardinality(Destroying(p)) <= 1
        /\ proxies[p].disposed = 0 => proxies[p].destroyed = 0 /\ Destroying(p) = {}
        /\ proxies[p].disposed = 1 =>
              proxies[p].destroyed + Cardinality(Destroying(p)) = 1

\* Two threads are inside Dispose() of the same proxy, both past the
\* exchange, and one DestroyRef was issued.
DisposeIdempotenceWitness ==
    \E p \in DOMAIN proxies : \E t1, t2 \in Threads :
        /\ t1 # t2
        /\ th[t1].p = p /\ th[t1].pc = "dispose_suppress" /\ th[t1].natives = 1
        /\ th[t2].p = p /\ th[t2].pc = "dispose_suppress" /\ th[t2].natives = 0
        /\ proxies[p].destroyed = 1

\* C8 (refnum-error cleanup): a call whose Go result is (value, error) with
\* a refnum-typed value and a non-null error refnum (package function, struct
\* or interface proxy method, constructor) has issued DestroyRef for the value
\* refnum, once, by the time it throws the GoException, and hands no proxy of
\* the value refnum to its caller.
RefnumErrorCleanup ==
    \A t \in Threads :
        /\ th[t].pc \in {"err_throw", "ctor_throw"} =>
              th[t].valDestroyed = <<th[t].r0>>
        /\ th[t].pc = "idle" /\ th[t].refErr /\ th[t].outcome = ExGoException =>
              /\ th[t].valDestroyed = <<th[t].r0>>
              /\ th[t].value.kind # "proxy"

\* A function or method threw the GoException of a (Go object, error) result
\* while a constructor is on its error path, both after their DestroyRef.
RefnumErrorCleanupWitness ==
    \E t1, t2 \in Threads :
        /\ th[t1].pc = "idle" /\ th[t1].refErr /\ th[t1].outcome = ExGoException
        /\ th[t1].r0 \in GoRefs /\ th[t1].valDestroyed = <<th[t1].r0>>
        /\ th[t2].pc = "ctor_throw" /\ th[t2].r0 \in GoRefs
        /\ th[t2].valDestroyed = <<th[t2].r0>>

\* C9 (at-most-one dec-ref per proxy): over the lifetime of a struct proxy
\* object, the constructor's error path, Dispose() and the finalizer together
\* issue DestroyRef for the Go reference it holds at most once.
AtMostOneDecRef ==
    \A p \in DOMAIN proxies :
        proxies[p].ctorDestroyed + proxies[p].destroyed <= 1

\* C10 (disposal error): a method, accessor, Refnum or IncRefnum() called on
\* a disposed proxy makes no native call, consumes no pending exception and
\* ends only by throwing ObjectDisposed; and a proxy's `disposed` flag, once
\* set, is never cleared.
DisposedCallsThrow ==
    \A t \in Threads :
        th[t].entered = 1 =>
            /\ th[t].natives = 0 /\ th[t].dequeued = 0
            /\ th[t].pc \in {"check", "idle"}
            /\ th[t].pc = "idle" => th[t].outcome = ExObjectDisposed

DisposedStays ==
    \A p \in DOMAIN proxies \cap DOMAIN proxies' :
        proxies[p].disposed = 1 => proxies'[p].disposed = 1

DisposalError == []DisposedCallsThrow /\ [][DisposedStays]_vars

\* A member called on a disposed proxy threw ObjectDisposed while an
\* exception was pending and stayed pending.
DisposalErrorWitness ==
    \E t \in Threads :
        /\ th[t].entered = 1 /\ th[t].pc = "idle"
        /\ th[t].outcome = ExObjectDisposed
        /\ pending # <<>>


(***************************************************************************)
(* Properties of callback registration                                     *)
(***************************************************************************)
\* The threads inside EnsureRegistered() past the CAS.
Registering == {t \in Threads : regth[t].pc \in {"touch", "set"}}

RegisteredOnce ==
    /\ casWins <= 1
    /\ \A m \in Methods : setterCalls[m] <= 1
    /\ registered = 0 => casWins = 0 /\ \A m \in Methods : setterCalls[m] = 0
    /\ registered = 1 => casWins = 1
    /\ registered = 1 /\ Registering = {} => \A m \in Methods : setterCalls[m] = 1

SlotKept ==
    \A m \in Methods : callback[m] # NullFn => callback'[m] = callback[m]

\* C6 (registration idempotence): however many EnsureRegistered() calls of
\* one interface proxy class run, concurrently or one after another, exactly
\* one wins the CAS on `registered`, each setter of the interface is called
\* at most once and exactly once when the winner has returned, and a callback
\* slot that was set is never given another value.
RegistrationIdempotence == []RegisteredOnce /\ [][SlotKept]_vars

\* Two threads have both returned from EnsureRegistered() after an earlier
\* argument had already been passed to Go; one CAS was won and every setter
\* was called once.
RegistrationIdempotenceWitness ==
    /\ \A t \in Threads : regth[t].pc = "incref"
    /\ goHolds # {}
    /\ casWins = 1
    /\ \A m \in Methods : setterCalls[m] = 1

\* C7 (registration happens-before dispatch): once EnsureRegistered() has
\* returned to a thread and IncRef has produced the refnum it passes to Go,
\* every callback slot of the interface is non-NULL, for CAS winners and
\* losers alike, and so no dispatcher loads a NULL slot and aborts.
RegisteredBeforeDispatch ==
    /\ ~aborted
    /\ (goHolds # {} \/ \E t \in Threads : regth[t].pc = "native") =>
          \A m \in Methods : callback[m] # NullFn

(***************************************************************************)
(* Properties of wire-to-managed conversion of references                  *)
(***************************************************************************)
\* C11 (FromRefnum direction, as the code has it): Proxy<Iface>.FromRefnum(r)
\* is null for NullRefNum, a fresh proxy holding r for a negative r (a Go
\* object), and for every other r the managed instance the tracker holds
\* under r, or an "unknown reference" error when it holds none.
FromRefnumDirection ==
    ret.op = "IfaceFromRefnum" =>
        /\ ret.arg = NullRefNum => ret.res = RNull
        /\ ret.arg < 0 =>
              /\ ret.res.kind = "proxy"
              /\ ret.res.val \in DOMAIN proxies
              /\ proxies[ret.res.val].cls = "iface"
              /\ proxies[ret.res.val].refnum = ret.arg
        /\ (ret.arg >= 0 /\ ret.arg # NullRefNum) =>
              IF ret.arg \in DOMAIN refs
              THEN ret.res = RObject(refs[ret.arg].Value)
              ELSE ret.res = RThrow(ExUnknownReference)

\* FromRefnum returned the tracked managed instance of a positive refnum
\* while a proxy made from a negative refnum exists.
FromRefnumDirectionWitness ==
    /\ ret.op = "IfaceFromRefnum" /\ ret.arg >= RefOffset
    /\ ret.res.kind = "object"
    /\ \E p \in DOMAIN proxies : proxies[p].cls = "iface" /\ proxies[p].refnum < 0

\* C11 as stated: Proxy<Iface>.FromRefnum(r) is null for NullRefNum, the
\* managed instance of the tracker for a negative r, and a fresh proxy for a
\* positive r other than NullRefNum.
FromRefnumDirectionAsStated ==
    ret.op = "IfaceFromRefnum" =>
        /\ ret.arg = NullRefNum => ret.res = RNull
        /\ ret.arg < 0 => ret.res.kind = "object"
        /\ (ret.arg > 0 /\ ret.arg # NullRefNum) => ret.res.kind = "proxy"

(***************************************************************************)
(* Properties of the pending-exception queue                               *)
(***************************************************************************)
\* C12 (pending-exception surfacing): no crossing from managed code into Go,
\* of whatever kind, makes its native call while a callback exception is
\* pending; a crossing that finds one dequeues exactly one entry, makes no
\* native call and throws it.
PendingSurfacing ==
    \A t \in Threads :
        /\ ~th[t].skipped
        /\ th[t].dequeued = 1 =>
              th[t].natives = 0 /\ th[t].pc = "idle" /\ th[t].outcome = ExPending

(***************************************************************************)
(* Properties of the callback trampolines                                  *)
(***************************************************************************)
\* A wire value that is the refnum of a Go error made by Seq.IncRef.
IsErrorRefnum(wire) ==
    wire.w = "refnum" /\ wire.v # NullRefNum /\ wire.v \in AllHanded

\* C13 (callback exception routing): when the managed method called by a
\* trampoline throws, a void method enqueues the exception and returns
\* nothing; an (error) method returns a Go error refnum and enqueues nothing;
\* a (T, error) method returns {default wire of T, Go error refnum} and
\* enqueues nothing; a (T) method enqueues the exception and returns the
\* default wire of T; and a run that does not throw leaves the queue alone
\* and has NullRefNum in its error slot.
CallbackRouting ==
    /\ (cb.ran /\ cb.threw = "method") =>
          /\ cb.kind = "void" =>
                cb.enq = 1 /\ (cb.outcome = "returned" => cb.r0 = WNone)
          /\ cb.kind = "errorOnly" =>
                cb.enq = 0 /\ cb.outcome = "returned" /\ IsErrorRefnum(cb.r0)
          /\ cb.kind = "valueError" =>
                /\ cb.enq = 0 /\ cb.outcome = "returned"
                /\ cb.r0 = defaultNativeReturn(cb.vt)
                /\ IsErrorRefnum(cb.r1)
          /\ cb.kind = "value" =>
                /\ cb.enq = 1
                /\ cb.outcome = "returned" => cb.r0 = defaultNativeReturn(cb.vt)
    /\ (cb.ran /\ cb.threw = "none") =>
          /\ cb.enq = 0 /\ cb.outcome = "returned"
          /\ cb.kind = "errorOnly" => cb.r0 = WRefnum(NullRefNum)
          /\ cb.kind = "valueError" => cb.r1 = WRefnum(NullRefNum)

\* The method of a (T, error) trampoline with a reference result threw
\* while an earlier exception of a method without error channel is queued.
CallbackRoutingWitness ==
    /\ cb.ran /\ cb.threw = "method" /\ cb.kind = "valueError"
    /\ cb.vt = "namedInterface" /\ cb.r0 = WRefnum(NullRefNum)
    /\ IsErrorRefnum(cb.r1)
    /\ pending # <<>>

\* C14 (no exception escapes a trampoline): whatever fails inside a
\* trampoline, its try block or its catch block, the run ends by returning to
\* the C dispatcher (or by the fail-fast the user switched on), never by an
\* exception that propagates into Go.
NoEscapeFromTrampoline == cb.ran => cb.outcome \in {"returned", "failfast"}

(***************************************************************************)
(* Properties of static initialisation                                     *)
(***************************************************************************)
\* C15 (init sequencing): whichever emitted member the program uses first,
\* the first native call of the process is go_seq_init, the second
\* go_seq_set_inc_ref and the third go_seq_set_dec_ref.
InitSequencing ==
    /\ Len(nativeLog) >= 1 => nativeLog[1] = "go_seq_init"
    /\ Len(nativeLog) >= 2 => nativeLog[2] = "go_seq_set_inc_ref"
    /\ Len(nativeLog) >= 3 => nativeLog[3] = "go_seq_set_dec_ref"


\* C16: when a managed-to-Go call ends without its native call being made
\* (marshalling an argument threw), every inc-ref performed while marshalling
\* has been matched by exactly one dec-ref.
PairedIncDec ==
    (mcall.pc = "done" /\ ~mcall.native) => mcall.decs = mcall.incs

\* C17: after the native call a non-empty transient byte-slice argument
\* buffer has been freed exactly once; a string argument buffer and a
\* retained (setter) buffer is never freed; a non-empty string or byte slice
\* returned from Go is copied and freed exactly once; a byte slice received
\* as a callback parameter is copied and not freed.
BufferOwnership ==
    /\ \A k \in DOMAIN mcall.bufs :
          LET b == mcall.bufs[k]
              transientBytes == b.kind = "slice" /\ mcall.callee.mode = "transient"
          IN /\ ~transientBytes => b.frees = 0
             /\ (transientBytes /\ ~b.zero /\ mcall.native) => b.frees = 1
             /\ (transientBytes /\ ~mcall.native) => b.frees = 0
    /\ (conv.site = "return" /\ ~conv.zero) => (conv.copied /\ conv.frees = 1)
    /\ (conv.site = "cbparam" /\ conv.kind = "slice") =>
          (conv.frees = 0 /\ (~conv.zero => conv.copied))

BufferOwnershipWitness ==
    /\ mcall.pc = "done" /\ mcall.native
    /\ \E k \in DOMAIN mcall.bufs :
          mcall.bufs[k].kind = "slice" /\ mcall.bufs[k].frees = 1
    /\ \E k \in DOMAIN mcall.bufs :
          mcall.bufs[k].kind = "string" /\ ~mcall.bufs[k].zero
    /\ conv.site = "return" /\ conv.kind = "slice" /\ conv.frees = 1

WellFormed(s) ==
    \A k \in 1 .. Len(s) :
       /\ IsHigh(s[k]) => (k < Len(s) /\ IsLow(s[k + 1]))
       /\ IsLow(s[k]) => (k > 1 /\ IsHigh(s[k - 1]))

\* C18 (as stated): every byte array and every string comes back from its
\* wire value unchanged; an empty or null one maps to the all-zero wire value
\* with no allocation, which maps back to the empty string or array.
MarshallingRoundTrip ==
    applied.fn \in {"string", "bytes"} =>
       /\ applied.in # NullValue => applied.out = applied.in
       /\ applied.in \in {NullValue, <<>>} =>
             (applied.wire = NZero /\ applied.out = <<>>)

\* C18 (amended): the string round trip holds for every string with no
\* unpaired surrogate; the byte-array round trip and the zero wire value for
\* empty and null inputs hold as stated.
RoundTripWellFormed ==
    applied.fn \in {"string", "bytes"} =>
       /\ (applied.in # NullValue /\ (applied.fn = "string" => WellFormed(applied.in)))
             => applied.out = applied.in
       /\ applied.in \in {NullValue, <<>>} =>
             (applied.wire = NZero /\ applied.out = <<>>)

RoundTripWellFormedWitness ==
    /\ applied.fn = "string" /\ applied.in # NullValue
    /\ WellFormed(applied.in) /\ \E k \in 1 .. Len(applied.in) : IsHigh(applied.in[k])
    /\ applied.wire.allocs = 1 /\ applied.wire.len > Len(applied.in)
    /\ applied.out = applied.in


\* C19: for every name, the empty one included, csIdentifier gives a
\* non-empty identifier of letters, digits and '_' that starts with a letter
\* or '_', is no reserved word, and is its own sanitised form.
IdentifierValidity ==
    applied.fn = "csIdentifier" =>
       /\ applied.out # <<>>
       /\ \A k \in DOMAIN applied.out : applied.out[k] \in Letters \cup Digits \cup {"_"}
       /\ applied.out[1] \in Letters \cup {"_"}
       /\ Str(applied.out) \notin csharpKeywords
       /\ applied.again = applied.out


\* The types of the tables: the listed basic kinds and their untyped
\* counterparts, []uint8, named types and pointers to named types.
InTables(t) ==
    \/ t.t = "Basic" /\ t.kind \in DOMAIN csBasicType
    \/ IsByteSlice(t)
    \/ t.t = "Named"
    \/ t.t = "Pointer" /\ t.elem.t = "Named"

\* The surface and wire names the tables give a Named type.
NamedInTables(n, surface, wire) ==
    /\ wire = "int"
    /\ IF n = ErrorType THEN surface = "Error"
       ELSE surface \in {Str(csIdentifier(n.name)),
                         csNamespace \o "." \o Str(csIdentifier(n.name))}

\* C20: csType and csNativeType agree with the tables on every type of the
\* tables (bool to bool and byte; int and int64 to long; int8, int16, int32 to
\* sbyte, short, int; uint8 to byte; float32, float64 to float, double; string
\* to string and NString; []uint8 to byte[] and NByteslice; named and
\* pointer-to-named to the class name and the int refnum; the wire type the
\* surface type for integers, floats and byte), and every other type records
\* a diagnostic.
TypeMapping ==
    applied.fn = "type" =>
       LET t == applied.in
           surface == applied.surface.cs
           wire == applied.wire.cs
       IN IF ~InTables(t) THEN applied.surface.diags + applied.wire.diags > 0
          ELSE CASE t.t = "Basic" ->
                      /\ surface = csBasicType[t.kind]
                      /\ wire = (CASE surface = "bool" -> "byte"
                                   [] surface = "string" -> "NString"
                                   [] OTHER -> surface)
                 [] t.t = "Slice" -> surface = "byte[]" /\ wire = "NByteslice"
                 [] t.t = "Named" -> NamedInTables(t, surface, wire)
                 [] t.t = "Pointer" -> NamedInTables(t.elem, surface, wire)


(***************************************************************************)
(* Tracker consistency                                                     *)
(***************************************************************************)
\* refs and objectRefs are inverse of each other.
MapsInverse ==
    /\ \A r \in DOMAIN refs :
          /\ refs[r].Value \in DOMAIN objectRefs
          /\ objectRefs[refs[r].Value] = r
    /\ \A o \in DOMAIN objectRefs :
          /\ objectRefs[o] \in DOMAIN refs
          /\ refs[objectRefs[o]].Value = o

\* DecRefnum called on a refnum it ignores.
DecIgnored(refnum) ==
    refnum <= 0 \/ refnum = NullRefNum \/ refnum \notin DOMAIN refs

\* C28: tracker consistency. In every state reached by interleavings of
\* Inc, IncRefnum, DecRefnum and GetRef the two maps are inverse of each
\* other, every stored entry has a count of at least 1, every stored refnum
\* is at least RefOffset (42) and below nextRefnum, and a DecRefnum on
\* NullRefNum, on a non-positive refnum or on a refnum with no entry leaves
\* the tracker as it was.
TrackerConsistency ==
    /\ [](/\ MapsInverse
          /\ \A r \in DOMAIN refs :
                /\ refs[r].Count >= 1
                /\ RefOffset <= r /\ r < nextRefnum)
    /\ [][ret'.op = "DecRefnum" /\ DecIgnored(ret'.arg)
             => UNCHANGED trackerVars]_vars

\* Two objects are tracked, one of them twice, and the last call was a
\* DecRefnum on an allocated refnum whose entry is gone.
TrackerConsistencyWitness ==
    /\ Cardinality(DOMAIN refs) = 2
    /\ \E r \in DOMAIN refs : refs[r].Count = 2
    /\ ret.op = "DecRefnum"
    /\ ret.arg >= RefOffset /\ ret.arg < nextRefnum
    /\ ret.arg \notin DOMAIN refs

(***************************************************************************)
(* The tracker near the limits of int                                      *)
(***************************************************************************)
\* How far below int.MaxValue the counters of the starting states lie.
MaxEdge == 1

\* The values at most MaxEdge below int.MaxValue.
NearMax == {IntMaxValue - d : d \in 0 .. MaxEdge}

\* Refnums passed to the tracker near the limits.
EdgeRefnums ==
    GoRefs \cup {0, NullRefNum, RefOffset, RefOffset + 1}
      \cup {IntMaxValue - d : d \in 0 .. MaxEdge + 1}

\* A tracker that has run for long: object 1 is interned at RefOffset with
\* a count at or near int.MaxValue, nextRefnum is at or near int.MaxValue.
InitEdge ==
    /\ nextRefnum \in NearMax
    /\ \E c \in NearMax :
          /\ refs = MapPut(EmptyMap, RefOffset, [Value |-> 1, Count |-> c])
          /\ net = [o \in Objects |-> IF o = 1 THEN c ELSE 0]
    /\ objectRefs = MapPut(EmptyMap, 1, RefOffset)
    /\ handed = [o \in Objects |-> IF o = 1 THEN {RefOffset} ELSE {}]
    /\ InitRest

\* Counts an increment is applied to: within MaxEdge of zero or within
\* MaxEdge + 1 of int.MaxValue.
EdgeCount(c) == c <= MaxEdge \/ c >= IntMaxValue - MaxEdge - 1

\* Seq.IncRef(value) -> Tracker.Inc(value).
EdgeInc(value) ==
    /\ value \in DOMAIN objectRefs => EdgeCount(refs[objectRefs[value]].Count)
    /\ Inc(value)
    /\ UNCHANGED <<proxies, pending, th, regVars, auxVars>>

\* Seq.IncRefnum(refnum) -> Tracker.IncRefnum(refnum).
EdgeIncRefnum(refnum) ==
    /\ refnum \in DOMAIN refs => EdgeCount(refs[refnum].Count)
    /\ IncRefnum(refnum)
    /\ UNCHANGED <<proxies, pending, th, regVars, auxVars>>

\* Seq.DecRefnum(refnum) -> Tracker.DecRefnum(refnum); counts stay within
\* MaxEdge + 1 of int.MaxValue or of zero.
EdgeDecRefnum(refnum) ==
    /\ refnum \in DOMAIN refs =>
          \/ refs[refnum].Count <= MaxEdge + 1
          \/ refs[refnum].Count >= IntMaxValue - MaxEdge
    /\ DecRefnum(refnum)
    /\ UNCHANGED <<proxies, pending, th, regVars, auxVars>>

\* Seq.GetRef(refnum) -> Tracker.GetRef(refnum).
EdgeGetRef(refnum) ==
    /\ Called("GetRef", refnum, GetRef(refnum))
    /\ UNCHANGED <<trackerVars, proxies, pending, th, regVars, auxVars>>

NextEdge ==
    \/ \E v \in Objects \cup {NullObj} : EdgeInc(v)
    \/ \E r \in EdgeRefnums : EdgeIncRefnum(r)
    \/ \E r \in EdgeRefnums : EdgeDecRefnum(r)
    \/ \E r \in EdgeRefnums : EdgeGetRef(r)

SpecEdge == InitEdge /\ [][NextEdge]_vars

\* The call recorded by a step was an Inc that met a limit: the object is
\* not interned and nextRefnum is int.MaxValue, or its entry's count is
\* int.MaxValue.
IncAtLimit ==
    /\ ret'.op = "Inc" /\ ret'.arg # NullObj
    /\ IF ret'.arg \in DOMAIN objectRefs
       THEN refs[objectRefs[ret'.arg]].Count = IntMaxValue
       ELSE nextRefnum = IntMaxValue

\* The call recorded by a step was a GetRef of a refnum that is not
\* NullRefNum and has no entry.
GetRefUnknown ==
    ret'.op = "GetRef" /\ ret'.arg # NullRefNum /\ ret'.arg \notin DOMAIN refs

\* The call recorded by a step was an IncRefnum of a refnum that is not
\* NullRefNum and has no entry.
IncRefnumUnknown ==
    ret'.op = "IncRefnum" /\ ret'.arg # NullRefNum /\ ret'.arg \notin DOMAIN refs

Threw == ret'.res.kind = "throw"

\* C27 (as the code has it): Inc throws when an object not yet interned
\* meets nextRefnum = int.MaxValue or when the entry's count is
\* int.MaxValue; GetRef throws on a refnum other than NullRefNum that has no
\* entry; IncRefnum throws on a positive refnum other than NullRefNum that
\* has no entry; and every call of the tracker that throws leaves both maps,
\* all counts and nextRefnum as they were.
TrackerErrors ==
    [][/\ IncAtLimit => Threw
       /\ GetRefUnknown => Threw
       /\ IncRefnumUnknown /\ ret'.arg > 0 => Threw
       /\ Threw => UNCHANGED trackerVars]_vars

\* Each of the error outcomes has happened at the limits: the last call
\* threw, and the tracker holds an entry at int.MaxValue.
TrackerErrorsWitness ==
    /\ ret.res.kind = "throw"
    /\ ret.op = "Inc" /\ ret.arg \notin DOMAIN objectRefs
    /\ nextRefnum = IntMaxValue
    /\ \E r \in DOMAIN refs : refs[r].Count = IntMaxValue

\* C27 as stated: IncRefnum throws on every refnum other than NullRefNum
\* that has no entry (with the other error outcomes as above).
TrackerErrorsAsStated ==
    [][/\ IncAtLimit => Threw
       /\ GetRefUnknown => Threw
       /\ IncRefnumUnknown => Threw
       /\ Threw => UNCHANGED trackerVars]_vars

(***************************************************************************)
(* Members racing with disposal                                            *)
(***************************************************************************)
\* C29: no use after destroy under concurrency. A member of a proxy that
\* runs on one thread while Dispose or the finalizer runs on another issues
\* no native call carrying the proxy's refnum (Seq.IncGoRef, the proxy
\* entry, the _Get/_Set entry) once DestroyRef has been issued for that
\* proxy: every step at which a thread makes such a call starts in a state
\* where the proxy has not been destroyed.
NoUseAfterDestroy ==
    [][\A t \in Threads :
          /\ th[t].pc \in {"incgoref", "native"}
          /\ th'[t].natives > th[t].natives
          => proxies[th[t].p].destroyed = 0]_vars

(***************************************************************************)
(* The C dispatcher of an interface method                                 *)
(***************************************************************************)
\* What the last dispatcher run did with the function pointer it loaded.
DispatcherRun ==
    bridge.m # 0 =>
       /\ bridge.aborted <=> bridge.loaded = NullFn
       /\ bridge.call.calls = (IF bridge.loaded = NullFn THEN 0 ELSE 1)
       /\ bridge.call.calls = 1 =>
             /\ bridge.call.callee = bridge.loaded
             /\ bridge.call.refnum = bridge.refnum
             /\ bridge.call.arg = bridge.arg
             /\ bridge.result = bridge.call.returned

\* C24: the C dispatcher. A dispatcher run loads the callback slot of its
\* method; when the slot is NULL it aborts and calls nothing; otherwise it
\* calls the loaded function pointer exactly once, with the refnum and the
\* argument it received, and returns the result of that call; and the slot
\* changes only in a step of the setter, which stores the trampoline.
CDispatcher ==
    /\ []DispatcherRun
    /\ [][/\ bridge' # bridge => bridge'.loaded = callback[bridge'.m]
          /\ callback' # callback =>
                \E t \in Threads :
                   /\ regth[t].pc = "set"
                   /\ callback' =
                         [callback EXCEPT ![regth[t].i] = Handler(regth[t].i)]]_vars

\* A dispatcher found its slot set and called the trampoline with a
\* non-zero argument, and returned its non-zero result.
CDispatcherWitness ==
    /\ bridge.m # 0
    /\ bridge.loaded # NullFn
    /\ bridge.call.calls = 1
    /\ bridge.arg = MaxBridge /\ bridge.result = MaxBridge
    /\ \E m \in Methods : callback[m] = NullFn

(***************************************************************************)
(* Seq.pendingExceptions read through LastUnhandledException               *)
(***************************************************************************)
\* Entries of the queue: an exception and the name of the callback method.
QueueMethods == {"OnEvent", "OnClose"}
QueueEntries == [ex : 1 .. MaxQueue, method : QueueMethods]

\* null, as an exception and as a method name.
NullEx == 0
NullMethod == ""

\* ConcurrentQueue.TryPeek(out p): the element at the beginning of the
\* queue, the one enqueued first, without removing it.
TryPeek(q) ==
    IF q = <<>> THEN [ok |-> FALSE, p |-> [ex |-> NullEx, method |-> NullMethod]]
    ELSE [ok |-> TRUE, p |-> Head(q)]

\* pendingExceptions.TryPeek(out var p) ? p.ex : null
LastUnhandledException(q) ==
    IF TryPeek(q).ok THEN TryPeek(q).p.ex ELSE NullEx

\* pendingExceptions.TryPeek(out var p) ? p.method : null
LastUnhandledExceptionMethod(q) ==
    IF TryPeek(q).ok THEN TryPeek(q).p.method ELSE NullMethod

\* Seq.ReportUnhandledException(ex, methodName):
\* pendingExceptions.Enqueue((ex, methodName)).
EnqueueUnhandled(e) ==
    /\ Len(pending) < MaxQueue
    /\ pending' = Append(pending, e)
    /\ UNCHANGED <<trackerVars, ret, regVars, auxVars, proxies, th>>

\* The program reads Seq.LastUnhandledException and
\* Seq.LastUnhandledExceptionMethod.
ReadLastUnhandled ==
    /\ applied' = [fn |-> "LastUnhandledException", queue |-> pending,
                   ex |-> LastUnhandledException(pending),
                   method |-> LastUnhandledExceptionMethod(pending)]
    /\ UNCHANGED progVars

NextQueue ==
    \/ \E e \in QueueEntries : EnqueueUnhandled(e)
    \/ ThrowIfPendingException
    \/ ReadLastUnhandled

SpecQueue == Init /\ [][NextQueue]_vars

\* C26: LastUnhandledException and LastUnhandledExceptionMethod return the
\* exception and the method name of the entry that was reported last among
\* those still queued, and null when the queue is empty; a read removes no
\* entry.
LastUnhandledIsMostRecent ==
    /\ [](applied.fn = "LastUnhandledException" =>
             IF applied.queue = <<>>
             THEN applied.ex = NullEx /\ applied.method = NullMethod
             ELSE /\ applied.ex = applied.queue[Len(applied.queue)].ex
                  /\ applied.method = applied.queue[Len(applied.queue)].method)
    /\ [][applied' # applied => pending' = pending /\ applied'.queue = pending]_vars

(***************************************************************************)
(* The generator: one pass over a bound package                            *)
(***************************************************************************)
\* Byte values of the characters of generated names, as sort.Strings
\* compares them.
CharCode ==
    ("1" :> 49) @@ ("C" :> 67) @@ ("E" :> 69) @@ ("F" :> 70) @@ ("G" :> 71) @@
    ("N" :> 78) @@ ("O" :> 79) @@ ("P" :> 80) @@ ("R" :> 82) @@ ("S" :> 83) @@
    ("_" :> 95) @@ ("a" :> 97) @@ ("c" :> 99) @@ ("e" :> 101) @@ ("f" :> 102) @@
    ("g" :> 103) @@ ("i" :> 105) @@ ("n" :> 110) @@ ("o" :> 111) @@ ("p" :> 112) @@
    ("q" :> 113) @@ ("r" :> 114) @@ ("s" :> 115) @@ ("t" :> 116) @@ ("u" :> 117) @@
    ("v" :> 118) @@ ("w" :> 119) @@ ("x" :> 120) @@ ("y" :> 121)

\* a < b as Go compares strings: byte by byte, a proper prefix first.
RECURSIVE StringLess(_, _)
StringLess(a, b) ==
    IF b = <<>> THEN FALSE
    ELSE IF a = <<>> THEN TRUE
    ELSE IF a[1] = b[1] THEN StringLess(Tail(a), Tail(b))
    ELSE CharCode[a[1]] < CharCode[b[1]]

\* sort.Strings over the names of a set: the names in increasing order.
RECURSIVE SortStrings(_)
SortStrings(names) ==
    IF names = {} THEN <<>>
    ELSE LET least == CHOOSE n \in names :
                         \A other \in names \ {n} : StringLess(n, other)
         IN <<least>> \o SortStrings(names \ {least})

\* g.pkgPrefix and g.Pkg.Name() of the bound package, a package named p.
pkgPrefix == <<"p">>

proxyFuncName(objName, funcName) ==
    <<"p", "r", "o", "x", "y">> \o pkgPrefix \o <<"_">> \o objName \o <<"_">> \o funcName

\* fmt.Sprintf("cproxy%s_%s_%s", g.pkgPrefix, ifaceName, methodName)
cproxyName(ifaceName, methodName) ==
    <<"c", "p", "r", "o", "x", "y">> \o pkgPrefix \o <<"_">> \o ifaceName
       \o <<"_">> \o methodName

cproxySetterName(ifaceName, methodName) ==
    <<"g", "o", "_", "s", "e", "q", "_", "s", "e", "t", "_">>
       \o cproxyName(ifaceName, methodName)

newFuncName(structName) ==
    <<"n", "e", "w", "_">> \o pkgPrefix \o <<"_">> \o structName

csReturnStructName(cName) ==
    csIdentifier(<<"C", "P", "r", "o", "x", "y", "_">> \o cName
                    \o <<"_", "R", "e", "t", "u", "r", "n">>)

\* "var_get%s_%s" and "var_set%s_%s" with g.pkgPrefix and v.Name()
varGetName(name) == <<"v", "a", "r", "_", "g", "e", "t">> \o pkgPrefix \o <<"_">> \o name
varSetName(name) == <<"v", "a", "r", "_", "s", "e", "t">> \o pkgPrefix \o <<"_">> \o name

\* "%s_Get" and "%s_Set" with g.proxyFuncName(s.obj.Name(), f.Name())
fieldGetName(structName, name) == proxyFuncName(structName, name) \o <<"_", "G", "e", "t">>
fieldSetName(structName, name) == proxyFuncName(structName, name) \o <<"_", "S", "e", "t">>

\* Types of the members of the package.
Int32T == [t |-> "Basic", kind |-> "Int32"]
Uint32T == [t |-> "Basic", kind |-> "Uint32"]
Int64T == [t |-> "Basic", kind |-> "Int64"]
StringT == [t |-> "Basic", kind |-> "String"]
ChanT == [t |-> "Chan"]
PtrTo(structName) ==
    [t |-> "Pointer", elem |-> [t |-> "Named", name |-> structName, pkg |-> "this"]]

isErrorType(t) == t = ErrorType

\* Supported types: the basic scalars (bool, the signed integers, uint8,
\* float32/64, their untyped counterparts), string, []byte, pointer to
\* named, named struct or interface.
isSupported(t) ==
    CASE t.t = "Basic" ->
           t.kind \in {"Bool", "Int", "Int8", "Int16", "Int32", "Int64", "Uint8",
                       "Float32", "Float64", "String", "UntypedBool", "UntypedInt",
                       "UntypedRune", "UntypedFloat", "UntypedString"}
      [] t.t = "Slice" -> IsByteSlice(t)
      [] t.t = "Pointer" -> t.elem.t = "Named"
      [] t.t = "Named" -> TRUE
      [] OTHER -> FALSE

\* Every parameter and every result of the signature is supported.
isSigSupported(sig) ==
    /\ \A i \in DOMAIN sig.params : isSupported(sig.params[i])
    /\ \A i \in DOMAIN sig.results : isSupported(sig.results[i])

\* isConsSigSupported without the test for a single int32/uint32 argument.
isConsSigSupported_NoClash(sig) == isSigSupported(sig)

isConsSigSupported(sig) ==
    IF ~isSigSupported(sig) THEN FALSE
    ELSE IF Len(sig.params) # 1 THEN TRUE
    ELSE IF sig.params[1].t = "Basic" /\ sig.params[1].kind \in {"Int32", "Uint32"}
    THEN FALSE
    ELSE TRUE

\* The structs and interfaces the package declares; the interface O has an
\* unexported method and cannot be implemented from managed code.
StructNames == << <<"E">>, <<"E", "_", "R">> >>
InterfaceInfos ==
    << [name |-> <<"R">>, implementable |-> TRUE],
       [name |-> <<"O">>, implementable |-> FALSE] >>

\* The struct a function is a constructor of: its result is *T, or
\* (*T, error); <<>> when it is no constructor.
constructorType(f) ==
    IF /\ Len(f.results) \in {1, 2}
       /\ \E k \in DOMAIN StructNames : f.results[1] = PtrTo(StructNames[k])
       /\ Len(f.results) = 2 => isErrorType(f.results[2])
    THEN f.results[1].elem.name
    ELSE <<>>

\* Signatures of the callables of the package.
Signatures ==
    {[params |-> <<>>, results |-> <<>>],
     [params |-> <<Int32T>>, results |-> <<PtrTo(<<"E">>)>>],
     [params |-> <<Uint32T>>, results |-> <<PtrTo(<<"E">>)>>],
     [params |-> <<Int64T>>, results |-> <<PtrTo(<<"E">>)>>],
     [params |-> <<>>, results |-> <<PtrTo(<<"E">>), ErrorType>>],
     [params |-> <<>>, results |-> <<Int32T, ErrorType>>],
     [params |-> <<>>, results |-> <<StringT, ErrorType>>],
     [params |-> <<>>, results |-> <<StringT, Int32T>>],
     [params |-> <<>>, results |-> <<Int32T, Int32T, ErrorType>>],
     [params |-> <<ChanT>>, results |-> <<>>],
     [params |-> <<>>, results |-> <<ChanT, ErrorType>>]}

\* Signatures of methods: those of a function that builds no struct.
MethodSignatures == {sig \in Signatures : Len(sig.params) # 1 \/ sig.params[1] = ChanT}

\* The members a package can declare: functions, methods of its structs,
\* fields of its structs, variables, callable methods of its interfaces.
Member(kind, owner, name, sig) ==
    [kind |-> kind, owner |-> owner, name |-> name,
     params |-> sig.params, results |-> sig.results]

Members ==
    {Member("func", <<>>, n, sig) : n \in {<<"F">>, <<"F", "1">>}, sig \in Signatures}
      \cup {Member("method", o, <<"O">>, sig) :
              o \in {<<"E", "_", "R">>}, sig \in MethodSignatures}
      \cup {Member("method", o, <<"R", "_", "O">>, sig) :
              o \in {<<"E">>}, sig \in MethodSignatures}
      \cup {Member("field", <<"E">>, <<"F">>, [params |-> <<>>, results |-> <<ty>>]) :
              ty \in {Int32T, ChanT}}
      \cup {Member("var", <<>>, <<"O">>, [params |-> <<>>, results |-> <<ty>>]) :
              ty \in {Int32T, ChanT}}
      \cup {Member("callable", o, <<"F">>, sig) :
              o \in {<<"R">>, <<"O">>}, sig \in MethodSignatures}

\* A package: its members in declaration order, no member declared twice.
Packages ==
    {g \in SeqsUpTo(Members, MaxMembers) :
        \A i, j \in DOMAIN g :
           i # j => <<g[i].kind, g[i].owner, g[i].name>>
                      # <<g[j].kind, g[j].owner, g[j].name>>}

\* g.funcs, g.vars, and per struct or interface its methods and fields.
Declared(g, kind, owner) ==
    SelectSeq(g, LAMBDA m : m.kind = kind /\ m.owner = owner)

funcs(g) == Declared(g, "func", <<>>)
varsOf(g) == Declared(g, "var", <<>>)
exportedMethodSet(g, structName) == Declared(g, "method", structName)
exportedFields(g, structName) == Declared(g, "field", structName)
callable(g, ifaceName) == Declared(g, "callable", ifaceName)

\* The elements of a sequence, and the strings of a set of names.
Range(s) == {s[i] : i \in DOMAIN s}
Strs(names) == {Str(n) : n \in names}

\* The signature of a callable.
SigOf(m) == [params |-> m.params, results |-> m.results]

\* The calls of collectStruct in the order collectReturnStructs makes them:
\* the functions, the methods of each struct, and for each callable
\* interface method its proxy name and then its cproxy name.
CollectCalls(g) ==
    LET ofFuncs ==
            [i \in DOMAIN funcs(g) |->
                [cName |-> proxyFuncName(<<>>, funcs(g)[i].name),
                 res |-> funcs(g)[i].results]]
        ofStruct(s) ==
            [i \in DOMAIN exportedMethodSet(g, s) |->
                [cName |-> proxyFuncName(s, exportedMethodSet(g, s)[i].name),
                 res |-> exportedMethodSet(g, s)[i].results]]
        ofIface(n) ==
            [k \in 1 .. 2 * Len(callable(g, n)) |->
                LET m == callable(g, n)[(k + 1) \div 2]
                IN [cName |-> IF k % 2 = 1 THEN proxyFuncName(n, m.name)
                              ELSE cproxyName(n, m.name),
                    res |-> m.results]]
    IN ofFuncs \o ofStruct(StructNames[1]) \o ofStruct(StructNames[2])
          \o ofIface(InterfaceInfos[1].name) \o ofIface(InterfaceInfos[2].name)

\* collectStruct that lets a later callable of the same name replace the
\* fields already stored.
FirstCall_Last(calls, kept, n) ==
    CHOOSE i \in kept : calls[i].cName = n /\ \A j \in kept : calls[j].cName = n => j <= i

\* The call of collectStruct that stores the fields for the name n: the
\* first one with more than one result.
FirstCall(calls, kept, n) ==
    CHOOSE i \in kept : calls[i].cName = n /\ \A j \in kept : calls[j].cName = n => i <= j

\* collectReturnStructs: canonical name -> result types.
collectReturnStructs(g) ==
    LET calls == CollectCalls(g)
        kept == {i \in DOMAIN calls : Len(calls[i].res) > 1}
    IN [n \in {calls[i].cName : i \in kept} |-> calls[FirstCall(calls, kept, n)].res]

\* emitReturnStructs: the records in the order they are written, each with
\* its canonical name, its name and the types of its fields r0, r1, ...
emitReturnStructs(returnStructs) ==
    LET structNames == SortStrings(DOMAIN returnStructs)
    IN [k \in DOMAIN structNames |->
          [cName |-> structNames[k],
           name |-> csReturnStructName(structNames[k]),
           fields |-> [i \in DOMAIN returnStructs[structNames[k]] |->
                          csNativeType(returnStructs[structNames[k]][i]).cs]]]

\* The entries every root pass declares in the Native class.
RootExterns ==
    {"go_seq_init", "DestroyRef", "IncGoRef", "GoSeqAlloc", "GoSeqFree",
     "go_seq_set_inc_ref", "go_seq_set_dec_ref"}

\* emitNativeClass of a package pass: the names declared static extern.
emitNativeClass(g) ==
    Strs({varSetName(v.name) : v \in {v \in Range(varsOf(g)) : isSupported(v.results[1])}})
      \cup Strs({varGetName(v.name) :
                   v \in {v \in Range(varsOf(g)) : isSupported(v.results[1])}})
      \cup Strs({proxyFuncName(<<>>, f.name) :
                   f \in {f \in Range(funcs(g)) : isSigSupported(SigOf(f))}})
      \cup UNION {Strs({proxyFuncName(s, m.name) :
                          m \in {m \in Range(exportedMethodSet(g, s)) :
                                    isSigSupported(SigOf(m))}}) :
                    s \in Range(StructNames)}
      \cup UNION {Strs({cproxySetterName(i.name, m.name) :
                          m \in {m \in Range(callable(g, i.name)) :
                                    isSigSupported(SigOf(m))}}) :
                    i \in Range(InterfaceInfos)}

\* The diagnostic of the switch on res.Len(), "" when the callable passes:
\* the functions and struct methods have the default case, the interface
\* methods do not.
SwitchDiag(m) ==
    IF Len(m.results) = 2 /\ ~isErrorType(m.results[2])
    THEN "second result must be error"
    ELSE IF Len(m.results) > 2 /\ m.kind # "callable"
    THEN "too many result values"
    ELSE ""

\* The callables that get a managed method: a static method of the package
\* class, a method of the struct class, a member of the interface and of
\* its proxy class.
ManagedMethods(g) ==
    {m \in Range(g) :
        /\ m.kind \in {"func", "method", "callable"}
        /\ isSigSupported(SigOf(m))
        /\ SwitchDiag(m) = ""}

\* The g.errorf calls of the switch on res.Len().
SwitchDiags(g) ==
    {[msg |-> SwitchDiag(m), name |-> m.name] :
        m \in {m \in Range(g) :
                  /\ m.kind \in {"func", "method", "callable"}
                  /\ isSigSupported(SigOf(m))
                  /\ SwitchDiag(m) # ""}}

\* The g.errorf calls csNativeType makes for the fields of return records.
TypeDiags(returnStructs) ==
    {[msg |-> "unsupported type", name |-> n] :
        n \in {n \in DOMAIN returnStructs :
                  \E i \in DOMAIN returnStructs[n] :
                     csNativeType(returnStructs[n][i]).diags > 0}}

\* genStructClass: the functions emitted as public constructors of s.
Constructors(g, s) ==
    {f \in Range(funcs(g)) : constructorType(f) = s /\ isConsSigSupported(SigOf(f))}

\* genStructClass: the constructors of the class of s.
genConstructors(g, s) ==
    [refnum |-> TRUE,
     default |-> \A f \in Constructors(g, s) : Len(f.params) # 0,
     fromFuncs |-> Constructors(g, s)]

\* The Native entries the emitted managed code of the pass invokes.
NativeInvoked(g) ==
    Strs({varGetName(v.name) :
            v \in {v \in Range(varsOf(g)) : isSupported(v.results[1])}})
      \cup Strs({varSetName(v.name) :
                   v \in {v \in Range(varsOf(g)) : isSupported(v.results[1])}})
      \cup Strs({proxyFuncName(IF m.kind = "func" THEN <<>> ELSE m.owner, m.name) :
                   m \in ManagedMethods(g)})
      \cup UNION {Strs({proxyFuncName(<<>>, f.name) : f \in Constructors(g, s)}) :
                    s \in Range(StructNames)}
      \cup Strs({newFuncName(s) :
                   s \in {s \in Range(StructNames) : genConstructors(g, s).default}})
      \cup UNION {Strs({fieldGetName(s, f.name) :
                          f \in {f \in Range(exportedFields(g, s)) :
                                    isSupported(f.results[1])}}) :
                    s \in Range(StructNames)}
      \cup UNION {Strs({fieldSetName(s, f.name) :
                          f \in {f \in Range(exportedFields(g, s)) :
                                    isSupported(f.results[1])}}) :
                    s \in Range(StructNames)}
      \cup UNION {Strs({cproxySetterName(i.name, m.name) :
                          m \in {m \in Range(callable(g, i.name)) :
                                    isSigSupported(SigOf(m))}}) :
                    i \in Range(InterfaceInfos)}

\* genInterface: the callable methods that get a setter call in
\* EnsureRegistered and a delegate with its trampoline.
Trampolines(g) ==
    {m \in Range(g) : m.kind = "callable" /\ isSigSupported(SigOf(m))}

\* GenC: the callable methods that get a C dispatcher and setter.
Dispatchers(g) ==
    {m \in Range(g) :
        /\ m.kind = "callable" /\ isSigSupported(SigOf(m))
        /\ \E k \in DOMAIN InterfaceInfos :
              InterfaceInfos[k].name = m.owner /\ InterfaceInfos[k].implementable}

\* GenCSharp and GenC of one package pass: what they emit and the
\* diagnostics they return. A generator is built for one package and runs
\* its pass once.
Generate(g) ==
    /\ applied.fn = "none"
    /\ applied' =
          [fn |-> "Generate", pkg |-> g,
           returnStructs |-> emitReturnStructs(collectReturnStructs(g)),
           externs |-> emitNativeClass(g),
           invoked |-> NativeInvoked(g),
           managed |-> ManagedMethods(g),
           trampolines |-> Trampolines(g),
           dispatchers |-> Dispatchers(g),
           constructors |-> [k \in DOMAIN StructNames |->
                               genConstructors(g, StructNames[k])],
           err |-> SwitchDiags(g) \cup TypeDiags(collectReturnStructs(g))]
    /\ UNCHANGED progVars

NextGen == \E g \in Packages : Generate(g)

SpecGen == Init /\ [][NextGen]_vars

(***************************************************************************)
(* Properties of a generation pass                                         *)
(***************************************************************************)
Generated == applied.fn = "Generate"

\* The calls of collectStruct with more than one result, by position.
MultiResult(calls) == {i \in DOMAIN calls : Len(calls[i].res) > 1}

\* One record per canonical name of a callable with more than one result,
\* and no other record.
OneRecordPerName(calls, recs) ==
    /\ \A i \in MultiResult(calls) :
          Cardinality({k \in DOMAIN recs : recs[k].cName = calls[i].cName}) = 1
    /\ \A k \in DOMAIN recs :
          \E i \in MultiResult(calls) : calls[i].cName = recs[k].cName

\* The fields of record rec are the wire types of the results res, in order.
FieldsOf(rec, res) ==
    /\ Len(rec.fields) = Len(res)
    /\ \A j \in DOMAIN res : rec.fields[j] = csNativeType(res[j]).cs

\* C21 (as the code has it): every callable with more than one result has
\* exactly one return record for its canonical C name, callables with at
\* most one result have none; the fields r0, r1, ... of the record are the
\* wire types of the results of the first callable collected under that
\* name, in result order; the records are emitted in lexicographic order of
\* their canonical C names.
ReturnShapeDedup ==
    Generated =>
       LET calls == CollectCalls(applied.pkg)
           recs == applied.returnStructs
       IN /\ OneRecordPerName(calls, recs)
          /\ \A k \in DOMAIN recs :
                \E i \in MultiResult(calls) :
                   /\ calls[i].cName = recs[k].cName
                   /\ \A j \in MultiResult(calls) :
                         calls[j].cName = recs[k].cName => i <= j
                   /\ FieldsOf(recs[k], calls[i].res)
          /\ \A k, l \in DOMAIN recs :
                k < l => StringLess(recs[k].cName, recs[l].cName)

\* Two callables of different result types share a canonical name and got
\* one record.
ReturnShapeDedupWitness ==
    /\ Generated
    /\ Len(applied.returnStructs) = 1
    /\ LET calls == CollectCalls(applied.pkg)
       IN \E i, j \in MultiResult(calls) :
             /\ i # j
             /\ calls[i].cName = calls[j].cName
             /\ calls[i].res # calls[j].res

\* C21 as stated: the record of every callable with more than one result
\* has the wire types of that callable's results as its fields, and the
\* records are emitted in lexicographic order of their names.
ReturnShapeDedupAsStated ==
    Generated =>
       LET calls == CollectCalls(applied.pkg)
           recs == applied.returnStructs
       IN /\ OneRecordPerName(calls, recs)
          /\ \A i \in MultiResult(calls) :
                \A k \in DOMAIN recs :
                   recs[k].cName = calls[i].cName => FieldsOf(recs[k], calls[i].res)
          /\ \A k, l \in DOMAIN recs :
                k < l => StringLess(recs[k].name, recs[l].name)

\* A function takes exactly one argument of type int32 or uint32.
SingleInt32(f) == Len(f.params) = 1 /\ f.params[1] \in {Int32T, Uint32T}

\* C22: constructor clash. A function that returns a struct is offered as a
\* public constructor of its class if and only if its signature is
\* supported and it does not take exactly one int32 or uint32 argument; the
\* class always has the internal constructor taking a refnum, and a
\* function taking a single int64 is offered.
ConstructorClash ==
    Generated =>
       \A k \in DOMAIN StructNames :
          /\ applied.constructors[k].refnum
          /\ \A f \in Range(funcs(applied.pkg)) :
                constructorType(f) = StructNames[k] =>
                   (f \in applied.constructors[k].fromFuncs
                      <=> isSigSupported(SigOf(f)) /\ ~SingleInt32(f))
          /\ \A f \in applied.constructors[k].fromFuncs :
                constructorType(f) = StructNames[k] /\ ~SingleInt32(f)

\* The package has NewE(int32) and NewE(int64): only the second is a public
\* constructor, next to the default one.
ConstructorClashWitness ==
    /\ Generated
    /\ \E f, h \in Range(funcs(applied.pkg)) :
          /\ f.params = <<Int32T>> /\ constructorType(f) = StructNames[1]
          /\ h.params = <<Int64T>> /\ constructorType(h) = StructNames[1]
          /\ applied.constructors[1].fromFuncs = {h}
    /\ applied.constructors[1].default

\* The entries the native surface is to declare for the package.
NativeSurfaceOf(g) ==
    Strs({proxyFuncName(<<>>, m.name) :
            m \in {m \in Range(g) : m.kind = "func" /\ isSigSupported(SigOf(m))}})
      \cup Strs({proxyFuncName(m.owner, m.name) :
                   m \in {m \in Range(g) : m.kind = "method" /\ isSigSupported(SigOf(m))}})
      \cup Strs({fieldGetName(m.owner, m.name) :
                   m \in {m \in Range(g) : m.kind = "field" /\ isSupported(m.results[1])}})
      \cup Strs({fieldSetName(m.owner, m.name) :
                   m \in {m \in Range(g) : m.kind = "field" /\ isSupported(m.results[1])}})
      \cup Strs({varGetName(m.name) :
                   m \in {m \in Range(g) : m.kind = "var" /\ isSupported(m.results[1])}})
      \cup Strs({varSetName(m.name) :
                   m \in {m \in Range(g) : m.kind = "var" /\ isSupported(m.results[1])}})
      \cup Strs({cproxySetterName(m.owner, m.name) :
                   m \in {m \in Range(g) :
                             /\ m.kind = "callable" /\ isSigSupported(SigOf(m))
                             /\ \E k \in DOMAIN InterfaceInfos :
                                   /\ InterfaceInfos[k].name = m.owner
                                   /\ InterfaceInfos[k].implementable}})

\* C23: native surface. The Native class of a package pass declares one
\* entry per supported function and struct method, the _Get/_Set pair per
\* supported struct field, the var_get/var_set pair per supported variable,
\* and one setter per supported method of an implementable interface, and
\* for no other interface.
NativeSurface ==
    Generated => applied.externs = NativeSurfaceOf(applied.pkg)

\* A callable the generator rejects: a type of its signature is not
\* supported, or it has two results of which the second is not error, or
\* more than two results.
Rejected(m) ==
    /\ m.kind \in {"func", "method", "callable"}
    /\ \/ ~isSigSupported(SigOf(m))
       \/ Len(m.results) = 2 /\ ~isErrorType(m.results[2])
       \/ Len(m.results) > 2

\* The canonical names of a callable.
NamesOf(m) ==
    IF m.kind = "func" THEN {proxyFuncName(<<>>, m.name)}
    ELSE IF m.kind = "method" THEN {proxyFuncName(m.owner, m.name)}
    ELSE {proxyFuncName(m.owner, m.name), cproxyName(m.owner, m.name),
          cproxySetterName(m.owner, m.name)}

\* C25: per-member rejection. A rejected callable contributes nothing to
\* the output of the pass: no managed method, no extern of the Native
\* class, no Native call, no return record, no delegate or trampoline, no
\* C dispatcher. (Callables that share a canonical name with another
\* member are left aside.)
PerMemberRejection ==
    Generated =>
       \A m \in Range(applied.pkg) :
          /\ Rejected(m)
          /\ \A o \in Range(applied.pkg) \ {m} :
                o.kind \in {"func", "method", "callable"} => NamesOf(o) \cap NamesOf(m) = {}
          => /\ m \notin applied.managed
             /\ Strs(NamesOf(m)) \cap applied.externs = {}
             /\ Strs(NamesOf(m)) \cap applied.invoked = {}
             /\ \A k \in DOMAIN applied.returnStructs :
                   applied.returnStructs[k].cName \notin NamesOf(m)
             /\ m \notin applied.trampolines
             /\ m \notin applied.dispatchers

\* C30: native symbol closure. Every Native entry the managed code of a
\* pass invokes is declared extern by the Native class of that pass or of
\* the root pass.
NativeSymbolClosure ==
    Generated => applied.invoked \subseteq applied.externs \cup RootExterns
====
